---------------------------- MODULE Spec2Model ----------------------------
(***************************************************************************)
(* Model of api/process-word.py: the document -> annotated HTML pipeline.  *)
(*                                                                         *)
(* Text is a sequence of tokens.  A token is a fixed literal piece of the  *)
(* HTML string (a tag, a placeholder, a phrase, one whitespace character), *)
(* written as the TLA+ string of that literal.  A literal find/replace of  *)
(* the source is the same find/replace on the token sequences of its       *)
(* literals; a regular expression of the source is the predicate on token  *)
(* sequences that it decides.  Positions are 0-based offsets, as in the    *)
(* source (text[:k] is the first k tokens), so that Python's truth test of *)
(* an offset (0 is false) is kept.                                         *)
(*                                                                         *)
(* The replacement tables of the source are kept in their order and with   *)
(* their length; an entry whose find-literal holds text that is no token   *)
(* of the alphabet below cannot match a text over the alphabet and is left *)
(* out of the table's list of pairs (its slot still counts as an           *)
(* iteration where the source iterates).                                   *)
(***************************************************************************)
EXTENDS Integers, Sequences, FiniteSets, TLC

VARIABLES
  pc,              \* position of the request / of the function under check
  doc,             \* the parsed document handed to process_word_document
  paragraphs,      \* process_word_document: extracted paragraph records
  tables,          \* process_word_document: extracted table records
  document_type,   \* process_word_document: detect_document_type's label
  formatted_html,  \* process_word_document: the HTML before/after the pipeline
  html_text,       \* apply_universal_formatting_rules: the working text
  transform_html_text, \* transform_to_target_format: its own html_text
  idx,             \* transform_to_target_format: entries of the table done
  result,          \* what process_word_document returns
  original_html,   \* history: the text passed into the pipeline / the function
  ran,             \* history: the passes called, in order
  spacing_calls,   \* history: calls of apply_comprehensive_spacing
  raised,          \* history: the pass in which an exception was raised
  fn,              \* the function applied (specifications of single passes)
  request,         \* handler: the request received
  DOCX_AVAILABLE,  \* module: whether python-docx could be imported
  response         \* handler: what has been sent to the client, in order

\* the state of the HTTP handler
http == <<request, DOCX_AVAILABLE, response>>

vars == <<pc, doc, paragraphs, tables, document_type, formatted_html, html_text,
          transform_html_text, idx, result, original_html, ran, spacing_calls,
          raised, fn, http>>

\* Python's None where an offset is expected (re.search found nothing), and
\* the -1 of str.find
None == -1

\* Python's None where a flag or a string is expected
NoValue == "None"

---------------------------------------------------------------------------
(* Tokens                                                                  *)

SP == " "
NL == "\n"
TAB == "\t"
Whitespace == {SP, NL, TAB}

DIV == "<div>"
DIVJ == "<div style=\"text-align: justify\">"
DIVC == "<div style=\"text-align: center\">"
DIVGREEN == "<div style=\"color: green;\">"
DIVRED == "<div style=\"color: red;\">"
EDIV == "</div>"
BR == "<br>"
B == "<b>"
EB == "</b>"

U == "<u>"
EU == "</u>"
I == "<i>"
EI == "</i>"
ESPAN == "</span>"

\* para_data['alignment'] other than 'left', and the sizes, in points, of the
\* fontSize strings of the runs of the documents below
Alignments == {"center", "right", "justify"}
RunSizes == {10, 12}
FontSizes == {ToString(n) \o "pt" : n \in RunSizes}

\* generate_formatted_html: the values '; '.join(div_attrs) can take
DivStyles ==
  {"text-align: " \o a : a \in Alignments}
    \cup {"font-size: " \o f : f \in FontSizes}
    \cup {"text-align: " \o a \o "; font-size: " \o f : a \in Alignments, f \in FontSizes}

\* The opening div tags of the alphabet: what the regex <div[^>]*> matches.
DivOpenTokens ==
  {DIV, DIVGREEN, DIVRED} \cup {"<div style=\"" \o st \o "\">" : st \in DivStyles}

IsDivOpen(tok) == tok \in DivOpenTokens

---------------------------------------------------------------------------
(* Strings as token sequences                                              *)

\* text[:k]
Prefix(text, k) == SubSeq(text, 1, k)

\* text[k:]
Suffix(text, k) == SubSeq(text, k + 1, Len(text))

\* text.startswith(pat, k)
MatchAt(text, pat, k) ==
  /\ k >= 0
  /\ k + Len(pat) <= Len(text)
  /\ \A j \in 1..Len(pat) : text[k + j] = pat[j]

\* text.find(pat): the least offset of pat in text, or None
find(text, pat) ==
  LET hits == {k \in 0..(Len(text) - Len(pat)) : MatchAt(text, pat, k)}
  IN  IF hits = {} THEN None
      ELSE CHOOSE k \in hits : \A m \in hits : k <= m

\* pat in text
contains(text, pat) == find(text, pat) # None

\* Whether a left-to-right scan takes the match that starts at offset k: it
\* does unless a match it took earlier runs over offset k.  ends[s] is the
\* offset after the match that starts at offset s, or None; hits are the
\* offsets where a match starts.
RECURSIVE TakenAt(_, _, _)
TakenAt(ends, hits, k) ==
  ~\E s \in hits : s < k /\ ends[s] > k /\ TakenAt(ends, hits, s)

\* ''.join(chunks[lo..hi])
RECURSIVE Flatten(_, _, _)
Flatten(chunks, lo, hi) ==
  IF lo > hi THEN <<>>
  ELSE IF lo = hi THEN chunks[lo]
  ELSE LET mid == (lo + hi) \div 2
       IN  Flatten(chunks, lo, mid) \o Flatten(chunks, mid + 1, hi)

\* re.sub / str.replace: every match the scan takes is replaced by repl[start],
\* the text between the matches is kept
Sub(text, ends, repl) ==
  IF Len(text) = 0 THEN text ELSE
  LET n == Len(text)
      hits == {k \in 0..(n - 1) : ends[k] # None}
      taken == {k \in hits : TakenAt(ends, hits, k)}
      chunks == [j \in 1..n |->
                   IF (j - 1) \in taken THEN repl[j - 1]
                   ELSE IF \E s \in taken : s < j - 1 /\ j - 1 < ends[s] THEN <<>>
                   ELSE <<text[j]>>]
  IN  IF hits = {} THEN text ELSE Flatten(chunks, 1, n)

Offsets(text) == 0..(Len(text) - 1)

\* text.replace(old, new): every occurrence, leftmost first, not overlapping
replace(text, old, new) ==
  Sub(text,
      [k \in Offsets(text) |-> IF MatchAt(text, old, k) THEN k + Len(old) ELSE None],
      [k \in Offsets(text) |-> new])

\* for old_text, new_text in replacements[lo..hi]:
\*     text = text.replace(old_text, new_text)
\* as the first half of the entries, then the second half on its result.  In
\* the empty text no entry matches.
RECURSIVE ApplyReplacements(_, _, _, _)
ApplyReplacements(text, replacements, lo, hi) ==
  IF Len(text) = 0 \/ lo > hi THEN text
  ELSE IF lo = hi THEN replace(text, replacements[lo][1], replacements[lo][2])
  ELSE LET mid == (lo + hi) \div 2
       IN  ApplyReplacements(ApplyReplacements(text, replacements, lo, mid),
                             replacements, mid + 1, hi)

\* re.search(r'<div[^>]*>' + phrase, text).start(), or None
SearchDivPhrase(text, phrase) ==
  LET hits == {k \in 0..(Len(text) - 2) :
                 IsDivOpen(text[k + 1]) /\ text[k + 2] = phrase}
  IN  IF hits = {} THEN None
      ELSE CHOOSE k \in hits : \A m \in hits : k <= m

\* the offset after the whitespace that starts at offset k: what \s* consumes
RECURSIVE SkipWs(_, _)
SkipWs(text, k) ==
  IF k < Len(text) /\ text[k + 1] \in Whitespace THEN SkipWs(text, k + 1) ELSE k

---------------------------------------------------------------------------
(* Canonical blocks                                                        *)

TABLE == "<table width=\"100%\" style=\"border-collapse: collapse\">"
ETABLE == "</table>"
TBODY == "<tbody>"
ETBODY == "</tbody>"
TR == "<tr>"
ETR == "</tr>"
TD == "<td>"
TD20 == "<td width=\"20%\">"
TD20TOP == "<td width=\"20%\" valign=\"top\">"
ETD == "</td>"

BorrowerValueRaw == "{[M558]}{If('{[M559]}'<>'')} and {[M559]}{End If}"
BorrowerValueEscaped == "{[M558]}{If('{[M559]}'&lt;&gt;'')} and {[M559]}{End If}"
MailingValue == "{Compress({[M561]}|{[M562]}|{[M563]}{[M564]}{[M565]}{[M566]})}"
PropertyValue == "{Compress({[M567]}|{[M583]})}"

TitleText == "Notice of Intention to Foreclose Mortgage"

\* one row's two cells: "\n  <td ..><b>label</b></td>\n  <td>value</td>"
Cells(tdopen, label, value) ==
  <<NL, SP, SP, tdopen, B, label, EB, ETD, NL, SP, SP, TD, value, ETD>>

\* "\n  </tr><tr>"
RowSep == <<NL, SP, SP, ETR, TR>>

\* "<div><table ...><tbody><tr> ... </tr></tbody></table>" with the four rows
ReTableOpen(borrowerValue) ==
  <<DIV, TABLE, TBODY, TR>>
    \o Cells(TD20, "Borrower Name:", borrowerValue) \o RowSep
    \o Cells(TD20TOP, "Mailing Address:", MailingValue) \o RowSep
    \o Cells(TD20, "Mortgage Loan No:", "{[M594]}") \o RowSep
    \o Cells(TD20, "Property Address:", PropertyValue)
    \o <<NL, ETR, ETBODY, ETABLE>>

\* the title line as a block: '<div style="text-align: center"><b>Notice ...</b></div>'
TitleBlock == <<DIVC, B, TitleText, EB, EDIV>>

\* add_document_title_and_re_table: title_html
title_html == TitleBlock \o <<NL, BR>>

\* add_document_title_and_re_table: re_table_html
re_table_html == ReTableOpen(BorrowerValueEscaped) \o <<EDIV, NL, BR>>

\* transform_to_target_format: target_header
target_header ==
  <<DIV, "{Insert(H003", SP, "TagHeader)}", EDIV, NL, BR, NL,
    DIV, "{[L001]}", EDIV, NL, BR, NL,
    DIV, "{[mailingAddress]}", EDIV, NL, BR, BR, BR, BR, BR, NL, NL>>

\* transform_to_target_format: target_re_table
target_re_table == ReTableOpen(BorrowerValueRaw) \o <<NL, BR, NL>>

\* '<div>Dear {[Salutation]},</div>'
SalutationBlock == <<DIV, "Dear", SP, "{[Salutation]},", EDIV>>

\* fix_salutation_section: clean_salutation
clean_salutation == SalutationBlock \o <<NL, BR>>

FiveBr == <<BR, BR, BR, BR, BR>>

---------------------------------------------------------------------------
(* The passes of apply_universal_formatting_rules                          *)

\* simple_field_cleanup: replacements (entries 1, 4, 39, 42, 68, 90, 96, 99 of 122)
simple_field_cleanup_replacements ==
  << <<  <<DIV, "{[tagHeader]}", "(Company Address Line 1)", EDIV>>,
         <<DIV, "{[tagHeader]}", EDIV>>  >>,
     <<  <<DIV, "{[L001]}", SP, "(System Date)", EDIV>>,
         <<DIV, "{[L001]}", EDIV>>  >>,
     <<  <<"{[tagHeader]}", "(Company Address Line 1)">>, <<"{[tagHeader]}">>  >>,
     <<  <<"{[L001]}", SP, "(System Date)">>, <<"{[L001]}">>  >>,
     <<  <<DIVJ, B, "{[H002]}", SP, EB, "(Company Address Line 1)", EDIV>>,
         <<DIVJ, B, "{[H002]}", SP, EB, EDIV>>  >>,
     <<  <<"{[CSPhoneNumber]}">>, <<"{[plsMatrix.CSPhoneNumber]}">>  >>,
     <<  <<SP, "(Company Address Line 1)">>, <<>>  >>,
     <<  <<SP, "(System Date)">>, <<>>  >> >>

\* the cleanup with the div-wrapped entries of the table alone
simple_field_cleanup_wrapped_only(text) ==
  ApplyReplacements(text, simple_field_cleanup_replacements, 1, 2)

simple_field_cleanup(text) ==
  ApplyReplacements(text, simple_field_cleanup_replacements, 1, Len(simple_field_cleanup_replacements))

\* fix_salutation_section, as defined last (the definition the pipeline calls)
salutation_end_patterns ==
  <<"Notice is hereby given", "To cure", "You are required">>

\* an anchor search that takes the match that lies first in the text, whichever
\* pattern it belongs to
RECURSIVE EarliestPatternPos(_, _, _)
EarliestPatternPos(text, patterns, k) ==
  IF k > Len(patterns) THEN None
  ELSE LET here == SearchDivPhrase(text, patterns[k])
           rest == EarliestPatternPos(text, patterns, k + 1)
       IN  IF here = None THEN rest
           ELSE IF rest = None \/ here < rest THEN here ELSE rest

\* for pattern in end_patterns: first pattern with a match gives end_pos, else None
RECURSIVE FirstPatternPos(_, _, _)
FirstPatternPos(text, patterns, k) ==
  IF k > Len(patterns) THEN None
  ELSE IF SearchDivPhrase(text, patterns[k]) # None
       THEN SearchDivPhrase(text, patterns[k])
       ELSE FirstPatternPos(text, patterns, k + 1)

\* a salutation pass that, finding no end pattern, replaces up to the end of the
\* text
fix_salutation_section_to_end(text) ==
  LET dear_start == SearchDivPhrase(text, "Dear")
      end_pos == FirstPatternPos(text, salutation_end_patterns, 1)
  IN  IF dear_start # None /\ end_pos # None /\ end_pos # 0
      THEN Prefix(text, dear_start) \o clean_salutation \o Suffix(text, end_pos)
      ELSE IF dear_start # None
           THEN Prefix(text, dear_start) \o clean_salutation
           ELSE text

fix_salutation_section(text) ==
  LET dear_start == SearchDivPhrase(text, "Dear")
      end_pos == FirstPatternPos(text, salutation_end_patterns, 1)
  IN  IF dear_start # None /\ end_pos # None /\ end_pos # 0
      THEN Prefix(text, dear_start) \o clean_salutation \o Suffix(text, end_pos)
      ELSE text

\* fix_payment_information_cleanup: replacements (entries 8, 25, 26 of 32)
payment_cleanup_replacements ==
  << <<  <<SP, "(Mortgagor Name)">>, <<>>  >>,
     <<  <<SP, "(System Date)">>, <<>>  >>,
     <<  <<SP, "(Company Address Line 1)">>, <<>>  >> >>

fix_payment_information_cleanup(text) ==
  ApplyReplacements(text, payment_cleanup_replacements, 1, Len(payment_cleanup_replacements))

\* fix_remaining_patterns: replacements (entries 8, 45 to 50 of 50)
remaining_patterns_replacements ==
  << <<  <<SP, "(Mortgagor Name)">>, <<>>  >>,
     <<  <<B, SP, EB>>, <<SP>>  >>,
     <<  <<B, EB>>, <<>>  >>,
     <<  <<U, B, SP, EB, EU>>, <<SP>>  >>,
     <<  <<U, B, EB, EU>>, <<>>  >>,
     <<  <<U, SP, EU>>, <<SP>>  >>,
     <<  <<U, EU>>, <<>>  >> >>

fix_remaining_patterns(text) ==
  ApplyReplacements(text, remaining_patterns_replacements, 1, Len(remaining_patterns_replacements))

\* '<div><b>(IF {...} = ...)</b></div>': the conditional-logic line
IfLine == <<DIV, B, "(IF {[M956]} = 1)", EB, EDIV>>

\* re.sub(r'<div><b>\(IF \{[^}]+\} = [^<]+\)</b></div>\s*<br>\s*', '', text)
IfLineEnd(text, k) ==
  LET br == SkipWs(text, k + Len(IfLine))
  IN  IF MatchAt(text, IfLine, k) /\ MatchAt(text, <<BR>>, br)
      THEN SkipWs(text, br + 1) ELSE None

RemoveIfLines(text) ==
  Sub(text, [k \in Offsets(text) |-> IfLineEnd(text, k)],
            [k \in Offsets(text) |-> <<>>])

\* fix_header_structure_cleanup (its second pattern holds 'Send ', no token)
fix_header_structure_cleanup(text) ==
  RemoveIfLines(text)

\* add_document_title_and_re_table, as defined last (the definition the pipeline calls)
add_document_title_and_re_table(text) ==
  LET header_end == find(text, FiveBr)
  IN  IF header_end # None
      THEN LET insert_pos == header_end + Len(FiveBr)
           IN  Prefix(text, insert_pos) \o title_html \o re_table_html
                 \o Suffix(text, insert_pos)
      ELSE text

\* transform_to_target_format, STEP 1: the header span
HeaderStartLine == <<DIVJ, B, "{[H002]}", SP, EB, EDIV>>

transform_header_step(text) ==
  LET header_start == find(text, HeaderStartLine)
      header_end == find(text, TitleBlock)
  IN  IF header_start # None /\ header_end # None
      THEN Prefix(text, header_start) \o target_header \o Suffix(text, header_end)
      ELSE text

\* transform_to_target_format, STEP 2: the scattered borrower block
BorrowerStartLine ==
  <<DIV, B, "Borrower Name:", EB, B, TAB, EB, "{[M558]} and {[M559]}", EDIV>>

transform_borrower_step(text) ==
  LET borrower_start == find(text, BorrowerStartLine)
      salutation_start == find(text, SalutationBlock)
  IN  IF borrower_start # None /\ salutation_start # None
      THEN Prefix(text, borrower_start) \o target_re_table
             \o Suffix(text, salutation_start)
      ELSE text

---------------------------------------------------------------------------
(* transform_to_target_format: the loop over payment_transformations       *)

\* len(payment_transformations)
NumTransformations == 80

\* payment_transformations: the entries over the alphabet, by their index
payment_transformations ==
  [k \in {28, 51, 52, 54, 78, 79, 80} |->
     CASE k = 28 ->
            << <<U, B, "Number of Payments Due:", EB, EU>>,
               <<B, U, "Number of Payments Due:", EU, EB>> >>
       [] k = 51 ->
            << <<DIV, "{Insert(H003", SP, "TagHeader)}", EDIV, SP, BR, SP,
                 DIV, "{[L001]}", EDIV, SP, BR, SP,
                 DIV, "{[mailingAddress]}", EDIV, SP, BR, BR, BR, BR, BR>>,
               <<DIV, "{Insert(H003", SP, "TagHeader)}", EDIV, NL, BR, NL,
                 DIV, "{[L001]}", EDIV, NL, BR, NL,
                 DIV, "{[mailingAddress]}", EDIV, NL, BR, BR, BR, BR, BR, NL>> >>
       [] k = 52 -> << TitleBlock \o <<SP, BR>>, TitleBlock \o <<NL, BR, NL>> >>
       [] k = 54 -> << SalutationBlock \o <<SP, BR>>, SalutationBlock \o <<NL, BR, NL>> >>
       [] k = 78 -> << <<BR, NL, BR, NL, BR, NL, BR, NL, BR, NL, BR, NL, BR>>, FiveBr >>
       [] k = 79 -> << <<BR, NL, BR, NL, BR, NL, BR, NL, BR, NL, BR>>, FiveBr >>
       [] k = 80 -> << <<BR, NL, BR, NL, BR, NL, BR, NL, BR>>, FiveBr >> ]

\* text.replace(old_pattern, new_pattern) for entry k of the table
transform_entry(text, k) ==
  IF k \in DOMAIN payment_transformations
  THEN replace(text, payment_transformations[k][1], payment_transformations[k][2])
  ELSE text

\* the offset after n <br> separated by \s*, matched from offset k, or None
RECURSIVE MatchBrRun(_, _, _)
MatchBrRun(text, k, n) ==
  IF ~MatchAt(text, <<BR>>, k) THEN None
  ELSE IF n = 1 THEN k + 1
  ELSE MatchBrRun(text, SkipWs(text, k + 1), n - 1)

\* re.sub(r'<br>\s*<br>\s*<br>\s*<br>\s*<br>\s*<br>\s*<br>', '<br><br><br><br><br>', text)
CollapseSevenBr(text) ==
  Sub(text, [k \in Offsets(text) |-> MatchBrRun(text, k, 7)],
            [k \in Offsets(text) |-> FiveBr])

\* re.sub(r'<b>\s*</b>', '', text)
RemoveEmptyBold(text) ==
  Sub(text,
      [k \in Offsets(text) |->
         IF MatchAt(text, <<B>>, k) /\ MatchAt(text, <<EB>>, SkipWs(text, k + 1))
         THEN SkipWs(text, k + 1) + 1 ELSE None],
      [k \in Offsets(text) |-> <<>>])

\* re.sub(r'<u>\s*</u>', '', text)
RemoveEmptyUnderline(text) ==
  Sub(text,
      [k \in Offsets(text) |->
         IF MatchAt(text, <<U>>, k) /\ MatchAt(text, <<EU>>, SkipWs(text, k + 1))
         THEN SkipWs(text, k + 1) + 1 ELSE None],
      [k \in Offsets(text) |-> <<>>])

\* re.sub(r'\s+', ' ', text)
CollapseWhitespace(text) ==
  Sub(text,
      [k \in Offsets(text) |->
         IF text[k + 1] \in Whitespace THEN SkipWs(text, k) ELSE None],
      [k \in Offsets(text) |-> <<SP>>])

\* the opening td tags of the alphabet: what the literal '<td' starts
TdOpenTokens == {TD, TD20, TD20TOP}

\* text.replace('<td', '  <td')
IndentTd(text) ==
  Sub(text,
      [k \in Offsets(text) |-> IF text[k + 1] \in TdOpenTokens THEN k + 1 ELSE None],
      [k \in Offsets(text) |-> <<SP, SP, text[k + 1]>>])

\* text.replace('   <td', '  <td')
DedentTd(text) ==
  Sub(text,
      [k \in Offsets(text) |->
         IF MatchAt(text, <<SP, SP, SP>>, k) /\ k + 3 < Len(text)
            /\ text[k + 4] \in TdOpenTokens
         THEN k + 4 ELSE None],
      [k \in Offsets(text) |-> <<SP, SP, text[k + 4]>>])

\* the number of "\n" among the tokens at offsets k .. e-1
RECURSIVE CountNl(_, _, _)
CountNl(text, k, e) ==
  IF k >= e THEN 0
  ELSE (IF text[k + 1] = NL THEN 1 ELSE 0) + CountNl(text, k + 1, e)

\* the offset after the last "\n" among the tokens at offsets k .. e-1
RECURSIVE LastNlEnd(_, _, _)
LastNlEnd(text, k, e) ==
  IF text[e] = NL THEN e ELSE LastNlEnd(text, k, e - 1)

\* re.sub(r'\n\s*\n\s*\n', '\n\n', text)
CollapseBlankLines(text) ==
  Sub(text,
      [k \in Offsets(text) |->
         IF text[k + 1] = NL /\ CountNl(text, k, SkipWs(text, k)) >= 3
         THEN LastNlEnd(text, k, SkipWs(text, k)) ELSE None],
      [k \in Offsets(text) |-> <<NL, NL>>])

\* the offset after the "\n" that start at offset k
RECURSIVE SkipNl(_, _)
SkipNl(text, k) ==
  IF k < Len(text) /\ text[k + 1] = NL THEN SkipNl(text, k + 1) ELSE k

\* re.sub(r'\n{3,}', '\n\n', text)
CollapseNewlines(text) ==
  Sub(text,
      [k \in Offsets(text) |-> IF SkipNl(text, k) >= k + 3 THEN SkipNl(text, k) ELSE None],
      [k \in Offsets(text) |-> <<NL, NL>>])

\* apply_comprehensive_spacing: its literal replacements, in order, up to '<td'
spacing_replacements_1 ==
  << << <<SP, BR, SP>>, <<NL, BR, NL>> >>,
     << <<BR, SP>>, <<BR, NL>> >>,
     << <<SP, BR>>, <<NL, BR>> >>,
     << <<SP, EDIV>>, <<NL, EDIV>> >>,
     << <<SP, DIV>>, <<NL, DIV>> >> >>

\* apply_comprehensive_spacing: its literal replacements between '<td' and '   <td'
spacing_replacements_2 ==
  << << <<ETR, SP, SP, SP, TR>>, <<SP, SP, ETR, TR>> >>,
     << <<ETD, SP, NL, SP, SP, ETR>>, <<ETD, NL, SP, SP, ETR>> >>,
     << <<ETD, SP, NL, ETD>>, <<ETD, NL, SP, SP, SP, SP, ETD>> >> >>

\* apply_comprehensive_spacing: its literal replacements after '   <td'
spacing_replacements_3 ==
  << << <<SP, SP, SP, TR>>, <<TR>> >>,
     << <<B, "{[plsMatrix.CSPhoneNumber]}", EB>>, <<"{[plsMatrix.CSPhoneNumber]}">> >> >>

\* The statements of apply_comprehensive_spacing, in order: a literal replace
\* <<"replace", old, new>> or one of the named substitutions.
ReplaceSteps(replacements) ==
  [i \in 1..Len(replacements) |->
     <<"replace", replacements[i][1], replacements[i][2]>>]

spacing_steps ==
  ReplaceSteps(spacing_replacements_1) \o << <<"IndentTd">> >>
    \o ReplaceSteps(spacing_replacements_2) \o << <<"DedentTd">> >>
    \o ReplaceSteps(spacing_replacements_3)
    \o << <<"CollapseBlankLines">>, <<"CollapseNewlines">> >>

\* STEP 4 of transform_to_target_format
line_noise_steps ==
  << <<"CollapseSevenBr">>, <<"RemoveEmptyBold">>, <<"RemoveEmptyUnderline">>,
     <<"CollapseWhitespace">> >>

\* one statement applied to the text
Step(text, st) ==
  CASE st[1] = "replace" -> replace(text, st[2], st[3])
    [] st[1] = "IndentTd" -> IndentTd(text)
    [] st[1] = "DedentTd" -> DedentTd(text)
    [] st[1] = "CollapseBlankLines" -> CollapseBlankLines(text)
    [] st[1] = "CollapseNewlines" -> CollapseNewlines(text)
    [] st[1] = "CollapseSevenBr" -> CollapseSevenBr(text)
    [] st[1] = "RemoveEmptyBold" -> RemoveEmptyBold(text)
    [] st[1] = "RemoveEmptyUnderline" -> RemoveEmptyUnderline(text)
    [] st[1] = "CollapseWhitespace" -> CollapseWhitespace(text)

\* the statements steps[lo..hi] applied in order: the first half, then the
\* second half on its result.  No statement changes the empty text.
RECURSIVE Steps(_, _, _, _)
Steps(text, steps, lo, hi) ==
  IF Len(text) = 0 \/ lo > hi THEN text
  ELSE IF lo = hi THEN Step(text, steps[lo])
  ELSE LET mid == (lo + hi) \div 2
       IN  Steps(Steps(text, steps, lo, mid), steps, mid + 1, hi)

apply_comprehensive_spacing(text) ==
  Steps(text, spacing_steps, 1, Len(spacing_steps))

line_noise_cleanup(text) ==
  Steps(text, line_noise_steps, 1, Len(line_noise_steps))

\* the statements of one iteration of the loop: the entry's replace (when the
\* entry is over the alphabet), then STEP 4 and STEP 5, which the source
\* indents into the loop
loop_body_steps(k) ==
  (IF k \in DOMAIN payment_transformations
   THEN << <<"replace", payment_transformations[k][1], payment_transformations[k][2]>> >>
   ELSE <<>>)
    \o line_noise_steps \o spacing_steps

transform_loop_body(text, k) ==
  Steps(text, loop_body_steps(k), 1, Len(loop_body_steps(k)))

\* for old_pattern, new_pattern in payment_transformations: the iterations
\* lo..hi in order
RECURSIVE TransformLoop(_, _, _)
TransformLoop(text, lo, hi) ==
  IF Len(text) = 0 \/ lo > hi THEN text
  ELSE IF lo = hi THEN transform_loop_body(text, lo)
  ELSE LET mid == (lo + hi) \div 2
       IN  TransformLoop(TransformLoop(text, lo, mid), mid + 1, hi)

transform_to_target_format(text) ==
  TransformLoop(transform_borrower_step(transform_header_step(text)),
                1, NumTransformations)

---------------------------------------------------------------------------
(* Extraction, classification and rendering                                *)

\* sep.join(parts)
Join(parts, sep) ==
  Flatten([i \in 1..Len(parts) |-> IF i = 1 THEN parts[i] ELSE sep \o parts[i]],
          1, Len(parts))

\* s.strip() is not empty
NotBlank(text) == \E j \in 1..Len(text) : text[j] \notin Whitespace

\* Python's truth test of a flag: "True", "False" or "None" (NoValue)
Truthy(flag) == flag = "True"

\* run.font.size is a length, kept here in half-points (the unit of the
\* document format: 21 is 10.5pt), or None when the run declares no size.
\* str(int(run.font.size.pt)) + 'pt' when run.font.size is truthy (not None, not
\* 0): int() drops the half point.
run_fontSize(run) ==
  IF run.size # None /\ run.size # 0 THEN ToString(run.size \div 2) \o "pt" ELSE NoValue

\* extract_paragraph_formatting: run_data
run_data(run) ==
  [text |-> run.text, bold |-> run.bold, underline |-> run.underline,
   italic |-> run.italic, fontSize |-> run_fontSize(run)]

\* extract_paragraph_formatting: para_data['alignment']
para_alignment(alignment) ==
  CASE alignment = "CENTER" -> "center"
    [] alignment = "RIGHT" -> "right"
    [] alignment = "JUSTIFY" -> "justify"
    [] OTHER -> "left"

extract_paragraph_formatting(paragraph) ==
  LET runs == [i \in 1..Len(paragraph.runs) |-> run_data(paragraph.runs[i])]
      n == Len(runs)
  IN  [text |-> Flatten([i \in 1..n |-> runs[i].text], 1, n),
       alignment |-> para_alignment(paragraph.alignment),
       fontSize |-> NoValue,
       bold |-> n > 0 /\ \A i \in 1..n : NotBlank(runs[i].text) => Truthy(runs[i].bold),
       underline |-> \E i \in 1..n : Truthy(runs[i].underline),
       italic |-> \E i \in 1..n : Truthy(runs[i].italic),
       runs |-> runs]

\* detect_document_type: all_text
all_text(paras) == Join([i \in 1..Len(paras) |-> paras[i].text], <<SP>>)

\* re.search(r'\{Insert\(H003\s+TagHeader\)\}', text)
SearchH003(text) ==
  \E k \in 0..(Len(text) - 3) :
    /\ text[k + 1] = "{Insert(H003"
    /\ text[k + 2] \in Whitespace
    /\ MatchAt(text, <<"TagHeader)}">>, SkipWs(text, k + 1))

\* re.search of a pattern without metacharacters but '|': one of the
\* alternatives occurs.  A phrase occurs as its own tokens or inside the one
\* token of the alphabet that holds it.
SearchAny(text, alternatives) == \E pat \in alternatives : contains(text, pat)

PatBR010 == {<<"Notice of Intention to Foreclose">>, <<TitleText>>}
PatBR017 == {<<"Notice of Default and Right to Cure">>}
PatPRIVACY == {<<"Privacy", SP, "Policy">>, <<"FACTS">>}
PatSL106 == {<<"maturity", SP, "date">>, <<"payoff", SP, "statement">>}

\* a classifier that tries the PRIVACY rule before the BR010 rule
detect_document_type_privacy_first(paras) ==
  LET text == all_text(paras)
  IN  IF SearchH003(text) THEN "H003"
      ELSE IF SearchAny(text, PatPRIVACY) THEN "PRIVACY"
      ELSE IF SearchAny(text, PatBR010) THEN "BR010"
      ELSE IF SearchAny(text, PatBR017) THEN "BR017"
      ELSE IF SearchAny(text, PatSL106) THEN "SL106"
      ELSE "GENERIC"

detect_document_type(paras) ==
  LET text == all_text(paras)
  IN  IF SearchH003(text) THEN "H003"
      ELSE IF SearchAny(text, PatBR010) THEN "BR010"
      ELSE IF SearchAny(text, PatBR017) THEN "BR017"
      ELSE IF SearchAny(text, PatPRIVACY) THEN "PRIVACY"
      ELSE IF SearchAny(text, PatSL106) THEN "SL106"
      ELSE "GENERIC"

\* a formatting of one run that wraps the runs with empty text as well
format_run_keeps_empty(run) ==
  LET t0 == run.text
      t1 == IF Truthy(run.bold) THEN <<B>> \o t0 \o <<EB>> ELSE t0
      t2 == IF Truthy(run.underline) THEN <<U>> \o t1 \o <<EU>> ELSE t1
      t3 == IF Truthy(run.italic) THEN <<I>> \o t2 \o <<EI>> ELSE t2
  IN  IF run.fontSize # NoValue
      THEN <<"<span style=\"font-size: " \o run.fontSize \o "\">">> \o t3 \o <<ESPAN>>
      ELSE t3

\* process_text_with_formatting: one run
format_run(run) ==
  LET t0 == run.text
      t1 == IF Truthy(run.bold) THEN <<B>> \o t0 \o <<EB>> ELSE t0
      t2 == IF Truthy(run.underline) THEN <<U>> \o t1 \o <<EU>> ELSE t1
      t3 == IF Truthy(run.italic) THEN <<I>> \o t2 \o <<EI>> ELSE t2
  IN  IF Len(t0) = 0 THEN <<>>
      ELSE IF run.fontSize # NoValue
           THEN <<"<span style=\"font-size: " \o run.fontSize \o "\">">> \o t3 \o <<ESPAN>>
           ELSE t3

process_text_with_formatting(runs) ==
  Flatten([i \in 1..Len(runs) |-> format_run(runs[i])], 1, Len(runs))

\* a div style that names the alignment of every paragraph, 'left' included
div_style_always_aligned(para) ==
  LET font_sizes == {para.runs[i].fontSize : i \in 1..Len(para.runs)} \ {NoValue}
      size == IF Cardinality(font_sizes) = 1
              THEN "; font-size: " \o (CHOOSE f \in font_sizes : TRUE) ELSE ""
  IN  " style=\"text-align: " \o para.alignment \o size \o "\""

\* a div style that takes the font size of the first sized run, whatever the
\* sizes of the other runs
div_style_first_size(para) ==
  LET sized == SelectSeq(para.runs, LAMBDA run : run.fontSize # NoValue)
      align == IF para.alignment # "left"
               THEN <<"text-align: " \o para.alignment>> ELSE <<>>
      size == IF Len(sized) > 0 THEN <<"font-size: " \o sized[1].fontSize>> ELSE <<>>
      div_attrs == align \o size
  IN  IF Len(div_attrs) = 0 THEN ""
      ELSE IF Len(div_attrs) = 1 THEN " style=\"" \o div_attrs[1] \o "\""
      ELSE " style=\"" \o div_attrs[1] \o "; " \o div_attrs[2] \o "\""

\* generate_formatted_html: div_attrs joined by '; '
div_style(para) ==
  LET font_sizes == {para.runs[i].fontSize : i \in 1..Len(para.runs)} \ {NoValue}
      align == IF para.alignment # "left"
               THEN <<"text-align: " \o para.alignment>> ELSE <<>>
      size == IF Cardinality(font_sizes) = 1
              THEN <<"font-size: " \o (CHOOSE f \in font_sizes : TRUE)>> ELSE <<>>
      div_attrs == align \o size
  IN  IF Len(div_attrs) = 0 THEN ""
      ELSE IF Len(div_attrs) = 1 THEN " style=\"" \o div_attrs[1] \o "\""
      ELSE " style=\"" \o div_attrs[1] \o "; " \o div_attrs[2] \o "\""

\* generate_formatted_html: one entry of html_parts
html_part(para) ==
  <<"<div" \o div_style(para) \o ">">> \o process_text_with_formatting(para.runs)
    \o <<EDIV>>

\* a rendering that gives every paragraph a block, blank ones included
generate_formatted_html_all_paragraphs(paras, tbls, doctype) ==
  Join([i \in 1..Len(paras) |-> html_part(paras[i])], <<NL, BR, NL>>)

\* a rendering that puts the text of the cells of the tables after the paragraphs
generate_formatted_html_with_tables(paras, tbls, doctype) ==
  LET cells == [t \in 1..Len(tbls) |->
                  Flatten([r \in 1..Len(tbls[t].rows) |->
                             Flatten([c \in 1..Len(tbls[t].rows[r].cells) |->
                                        tbls[t].rows[r].cells[c].text],
                                     1, Len(tbls[t].rows[r].cells))],
                          1, Len(tbls[t].rows))]
  IN  Join(SelectSeq([i \in 1..Len(paras) |-> IF NotBlank(paras[i].text)
                                               THEN html_part(paras[i]) ELSE <<>>],
                     LAMBDA part : Len(part) > 0),
           <<NL, BR, NL>>)
        \o Flatten(cells, 1, Len(cells))

\* a rendering that puts the document type in front of typed documents
generate_formatted_html_typed(paras, tbls, doctype) ==
  (IF doctype = "GENERIC" THEN <<>> ELSE <<DIV, doctype, EDIV, NL, BR, NL>>)
    \o Join(SelectSeq([i \in 1..Len(paras) |-> IF NotBlank(paras[i].text)
                                                THEN html_part(paras[i]) ELSE <<>>],
                      LAMBDA part : Len(part) > 0),
            <<NL, BR, NL>>)

generate_formatted_html(paras, tbls, doctype) ==
  Join(SelectSeq([i \in 1..Len(paras) |-> IF NotBlank(paras[i].text)
                                           THEN html_part(paras[i]) ELSE <<>>],
                 LAMBDA part : Len(part) > 0),
       <<NL, BR, NL>>)

\* the formatting of a cell taken from the last run of its first paragraph
last_run(cell) ==
  IF Len(cell.paragraphs) > 0 /\ Len(cell.paragraphs[1].runs) > 0
  THEN cell.paragraphs[1].runs[Len(cell.paragraphs[1].runs)]
  ELSE [bold |-> "False", underline |-> "False"]

\* extract_table_formatting: cell_data['bold'], cell_data['underline'] come from
\* the first run of the cell's first paragraph, False when there is none
first_run(cell) ==
  IF Len(cell.paragraphs) > 0 /\ Len(cell.paragraphs[1].runs) > 0
  THEN cell.paragraphs[1].runs[1]
  ELSE [bold |-> "False", underline |-> "False"]

extract_table_formatting(table) ==
  [rows |-> [r \in 1..Len(table) |->
               [cells |-> [c \in 1..Len(table[r]) |->
                             [text |-> table[r][c].text,
                              width |-> NoValue,
                              alignment |-> "left",
                              bold |-> first_run(table[r][c]).bold,
                              underline |-> first_run(table[r][c]).underline]]]],
   width |-> "100%",
   borderCollapse |-> TRUE]

---------------------------------------------------------------------------
(* apply_universal_formatting_rules                                        *)

\* a debug message that reports success whatever the cleanup left
debug_message_always_green(text) ==
  <<DIVGREEN, "Simple field cleanup worked!", EDIV>> \o text

\* the debug message put in front of the text after simple_field_cleanup (the
\* two message tokens stand for the messages with their leading mark)
debug_message(text) ==
  IF contains(text, <<"(Company Address Line 1)">>)
  THEN <<DIVRED, "Simple field cleanup did NOT work", EDIV>> \o text
  ELSE <<DIVGREEN, "Simple field cleanup worked!", EDIV>> \o text

\* f'<div style="color: red;">Formatting error: {str(e)}</div>'
ErrorBanner == <<DIVRED, "Formatting error: ", "err", EDIV>>

\* the calls of the try block, in order
Passes ==
  <<"simple_field_cleanup", "fix_salutation_section",
    "fix_payment_information_cleanup", "fix_remaining_patterns",
    "fix_header_structure_cleanup", "add_document_title_and_re_table",
    "transform_to_target_format">>

\* the try block when no call raises
apply_universal_formatting_rules(text) ==
  transform_to_target_format(
    add_document_title_and_re_table(
      fix_header_structure_cleanup(
        fix_remaining_patterns(
          fix_payment_information_cleanup(
            fix_salutation_section(
              debug_message(simple_field_cleanup(text))))))))

\* the labels detect_document_type can return
DocumentTypes == {"H003", "BR010", "BR017", "PRIVACY", "SL106", "GENERIC"}

---------------------------------------------------------------------------
(* The documents of the requests                                           *)

\* a run of a paragraph without character formatting
PlainRun(text) ==
  [text |-> text, bold |-> "None", underline |-> "None", italic |-> "None",
   size |-> None]

BoldRun(text) ==
  [text |-> text, bold |-> "True", underline |-> "None", italic |-> "None",
   size |-> None]

\* the paragraph of the scenario of the field cleanup
TagHeaderParagraph ==
  [alignment |-> "None",
   runs |-> <<PlainRun(<<"{[tagHeader]}", "(Company Address Line 1)">>)>>]

\* The paragraphs of the letter template the documents are made of.
ParagraphPool ==
  << [alignment |-> "JUSTIFY", runs |-> <<BoldRun(<<"{[H002]}", SP>>)>>],
     TagHeaderParagraph,
     [alignment |-> "CENTER", runs |-> <<BoldRun(<<TitleText>>)>>],
     [alignment |-> "None", runs |-> <<PlainRun(<<SP>>)>>],
     [alignment |-> "JUSTIFY",
      runs |-> <<PlainRun(<<"Dear", SP, "{[Salutation]},", SP, "(Mortgagor Name)">>)>>],
     [alignment |-> "None", runs |-> <<PlainRun(<<"Notice is hereby given">>),
                                       BoldRun(<<>>)>>],
     [alignment |-> "RIGHT",
      runs |-> <<[text |-> <<"Privacy", SP, "Policy">>, bold |-> "False",
                  underline |-> "True", italic |-> "True", size |-> 24]>>] >>

\* a table of one row with two cells
SampleTable ==
  << << [text |-> <<"Borrower Name:">>,
         paragraphs |-> <<[runs |-> <<[bold |-> "True", underline |-> "None"]>>]>>],
        [text |-> <<>>, paragraphs |-> <<[runs |-> <<>>]>>] >> >>

\* the most paragraphs a document has
MaxParas == 2

\* the members of a set of numbers, in increasing order
RECURSIVE InOrder(_)
InOrder(S) ==
  IF S = {} THEN <<>>
  ELSE LET m == CHOOSE x \in S : \A y \in S : x <= y
       IN  <<m>> \o InOrder(S \ {m})

\* the paragraphs of the template at the positions S, in the template's order
Selection(S) == [i \in 1..Len(InOrder(S)) |-> ParagraphPool[InOrder(S)[i]]]

\* The documents: up to MaxParas paragraphs of the template, without tables;
\* one document with a table; one file that python-docx cannot open.
Documents ==
  {[parses |-> TRUE, paragraphs |-> Selection(S), tables |-> <<>>] :
     S \in {T \in SUBSET (1..Len(ParagraphPool)) : Cardinality(T) <= MaxParas}}
    \cup {[parses |-> TRUE, paragraphs |-> Selection({3}), tables |-> <<SampleTable>>],
          [parses |-> FALSE, paragraphs |-> <<>>, tables |-> <<>>]}

---------------------------------------------------------------------------
(* process_word_document: one request                                      *)

Init ==
  /\ pc = "Document"
  /\ doc \in Documents
  /\ paragraphs = <<>>
  /\ tables = <<>>
  /\ document_type = NoValue
  /\ formatted_html = <<>>
  /\ html_text = <<>>
  /\ transform_html_text = <<>>
  /\ idx = 0
  /\ result = NoValue
  /\ original_html = <<>>
  /\ ran = <<>>
  /\ spacing_calls = 0
  /\ raised = NoValue
  /\ fn = "process_word_document"
  /\ request = NoValue
  /\ DOCX_AVAILABLE = TRUE
  /\ response = <<>>

\* Document(io.BytesIO(file_bytes)) and the two extraction loops
ExtractDocument ==
  /\ pc = "Document"
  /\ doc.parses
  /\ paragraphs' = [i \in 1..Len(doc.paragraphs) |->
                      extract_paragraph_formatting(doc.paragraphs[i])]
  /\ tables' = [i \in 1..Len(doc.tables) |-> extract_table_formatting(doc.tables[i])]
  /\ pc' = "detect_document_type"
  /\ UNCHANGED <<http, doc, document_type, formatted_html, html_text, transform_html_text,
                 idx, result, original_html, ran, spacing_calls, raised, fn>>

\* a handling of a failing Document(...) that lets the exception leave
\* process_word_document
DocumentFailsAndRaises ==
  /\ pc = "Document"
  /\ ~doc.parses
  /\ pc' = "except"
  /\ UNCHANGED <<http, doc, paragraphs, tables, document_type, formatted_html, html_text,
                 transform_html_text, idx, result, original_html, ran, spacing_calls,
                 raised, fn>>

\* Document(...) raises: the except branch of process_word_document
DocumentFails ==
  /\ pc = "Document"
  /\ ~doc.parses
  /\ result' = [success |-> FALSE,
                error |-> <<"Error processing document: ", "err">>,
                formattedHtml |-> <<DIV, "Error processing document: ", "err", EDIV>>]
  /\ pc' = "done"
  /\ UNCHANGED <<http, doc, paragraphs, tables, document_type, formatted_html, html_text,
                 transform_html_text, idx, original_html, ran, spacing_calls, raised, fn>>

DetectDocumentType ==
  /\ pc = "detect_document_type"
  /\ document_type' = detect_document_type(paragraphs)
  /\ pc' = "generate_formatted_html"
  /\ UNCHANGED <<http, doc, paragraphs, tables, formatted_html, html_text, transform_html_text,
                 idx, result, original_html, ran, spacing_calls, raised, fn>>

GenerateFormattedHtml ==
  /\ pc = "generate_formatted_html"
  /\ formatted_html' = generate_formatted_html(paragraphs, tables, document_type)
  /\ pc' = "apply_universal_formatting_rules"
  /\ UNCHANGED <<http, doc, paragraphs, tables, document_type, html_text, transform_html_text,
                 idx, result, original_html, ran, spacing_calls, raised, fn>>

\* the call apply_universal_formatting_rules(formatted_html)
EnterPipeline ==
  /\ pc = "apply_universal_formatting_rules"
  /\ html_text' = formatted_html
  /\ original_html' = formatted_html
  /\ pc' = Passes[1]
  /\ UNCHANGED <<http, doc, paragraphs, tables, document_type, formatted_html,
                 transform_html_text, idx, result, ran, spacing_calls, raised, fn>>

\* html_text = pass(html_text), and on to the next statement
CallPass(name, out, next) ==
  /\ pc = name
  /\ html_text' = out
  /\ ran' = Append(ran, name)
  /\ pc' = next
  /\ UNCHANGED <<http, doc, paragraphs, tables, document_type, formatted_html,
                 transform_html_text, idx, result, original_html, spacing_calls,
                 raised, fn>>

SimpleFieldCleanup ==
  CallPass("simple_field_cleanup", debug_message(simple_field_cleanup(html_text)),
           "fix_salutation_section")

FixSalutationSection ==
  CallPass("fix_salutation_section", fix_salutation_section(html_text),
           "fix_payment_information_cleanup")

FixPaymentInformationCleanup ==
  CallPass("fix_payment_information_cleanup",
           fix_payment_information_cleanup(html_text), "fix_remaining_patterns")

FixRemainingPatterns ==
  CallPass("fix_remaining_patterns", fix_remaining_patterns(html_text),
           "fix_header_structure_cleanup")

FixHeaderStructureCleanup ==
  CallPass("fix_header_structure_cleanup", fix_header_structure_cleanup(html_text),
           "add_document_title_and_re_table")

AddDocumentTitleAndReTable ==
  CallPass("add_document_title_and_re_table",
           add_document_title_and_re_table(html_text), "transform_to_target_format")

\* transform_to_target_format is called: STEP 1 and STEP 2, up to the loop
TransformBegin ==
  /\ pc = "transform_to_target_format"
  /\ transform_html_text' = transform_borrower_step(transform_header_step(html_text))
  /\ idx' = 0
  /\ ran' = Append(ran, "transform_to_target_format")
  /\ pc' = "payment_transformations"
  /\ UNCHANGED <<http, doc, paragraphs, tables, document_type, formatted_html, html_text,
                 result, original_html, spacing_calls, raised, fn>>

\* one iteration of the loop over payment_transformations: the entry's replace,
\* STEP 4 and the call of apply_comprehensive_spacing
TransformIteration ==
  /\ pc = "payment_transformations"
  /\ idx < NumTransformations
  /\ transform_html_text' = transform_loop_body(transform_html_text, idx + 1)
  /\ idx' = idx + 1
  /\ spacing_calls' = spacing_calls + 1
  /\ UNCHANGED <<http, pc, doc, paragraphs, tables, document_type, formatted_html, html_text,
                 result, original_html, ran, raised, fn>>

\* the loop is over: return text, assigned to html_text
TransformReturn ==
  /\ pc = "payment_transformations"
  /\ idx = NumTransformations
  /\ html_text' = transform_html_text
  /\ pc' = "return"
  /\ UNCHANGED <<http, doc, paragraphs, tables, document_type, formatted_html,
                 transform_html_text, idx, result, original_html, ran, spacing_calls,
                 raised, fn>>

\* an except branch after which the try block goes on with the next statement
PassRaisesAndContinues ==
  /\ pc \in {Passes[i] : i \in 1..Len(Passes)}
  /\ raised' = pc
  /\ ran' = Append(ran, pc)
  /\ html_text' = ErrorBanner \o html_text
  /\ pc' = IF pc = "transform_to_target_format" THEN "return"
           ELSE Passes[1 + CHOOSE i \in 1..Len(Passes) : Passes[i] = pc]
  /\ UNCHANGED <<http, doc, paragraphs, tables, document_type, formatted_html,
                 transform_html_text, idx, result, original_html, spacing_calls, fn>>

\* The pass that is called next, or the pass that is running, raises: the
\* assignment to html_text does not happen and the except branch puts the
\* banner in front of html_text as it is.
PassRaises ==
  /\ pc \in {Passes[i] : i \in 1..Len(Passes)} \cup {"payment_transformations"}
  /\ raised' = IF pc = "payment_transformations" THEN "transform_to_target_format" ELSE pc
  /\ ran' = IF pc = "payment_transformations" THEN ran ELSE Append(ran, pc)
  /\ html_text' = ErrorBanner \o html_text
  /\ pc' = "return"
  /\ UNCHANGED <<http, doc, paragraphs, tables, document_type, formatted_html,
                 transform_html_text, idx, result, original_html, spacing_calls, fn>>

\* return html_text; process_word_document builds its result
ReturnResult ==
  /\ pc = "return"
  /\ formatted_html' = html_text
  /\ result' = [success |-> TRUE,
                formattedHtml |-> html_text,
                documentType |-> document_type,
                paragraphs |-> paragraphs,
                tables |-> tables]
  /\ pc' = "done"
  /\ UNCHANGED <<http, doc, paragraphs, tables, document_type, html_text, transform_html_text,
                 idx, original_html, ran, spacing_calls, raised, fn>>

Next ==
  \/ ExtractDocument
  \/ DocumentFails
  \/ DetectDocumentType
  \/ GenerateFormattedHtml
  \/ EnterPipeline
  \/ SimpleFieldCleanup
  \/ FixSalutationSection
  \/ FixPaymentInformationCleanup
  \/ FixRemainingPatterns
  \/ FixHeaderStructureCleanup
  \/ AddDocumentTitleAndReTable
  \/ TransformBegin
  \/ TransformIteration
  \/ TransformReturn
  \/ PassRaises
  \/ ReturnResult

Spec == Init /\ [][Next]_vars

---------------------------------------------------------------------------
(* detect_document_type on lists of paragraphs                             *)

\* the texts of the paragraphs handed to detect_document_type
ClassifyTexts ==
  { <<"{Insert(H003", SP, "TagHeader)}">>,
    <<"{Insert(H003">>,
    <<"TagHeader)}">>,
    <<"Notice of Intention to Foreclose">>,
    <<"Notice of Default and Right to Cure">>,
    <<"Privacy", SP, "Policy">>,
    <<"Privacy">>,
    <<"Policy">>,
    <<"FACTS">>,
    <<"maturity", SP, "date">>,
    <<"payoff", SP, "statement">>,
    <<>> }

\* the most paragraphs a list handed to detect_document_type has
MaxClassifyParas == 3

InitClassify ==
  /\ pc = "paragraphs"
  /\ paragraphs \in UNION {[1..m -> {[text |-> t] : t \in ClassifyTexts}] :
                             m \in 0..MaxClassifyParas}
  /\ doc = NoValue
  /\ tables = <<>>
  /\ document_type = NoValue
  /\ formatted_html = <<>>
  /\ html_text = <<>>
  /\ transform_html_text = <<>>
  /\ idx = 0
  /\ result = NoValue
  /\ original_html = <<>>
  /\ ran = <<>>
  /\ spacing_calls = 0
  /\ raised = NoValue
  /\ fn = "detect_document_type"
  /\ request = NoValue
  /\ DOCX_AVAILABLE = TRUE
  /\ response = <<>>

Classify ==
  /\ pc = "paragraphs"
  /\ document_type' = detect_document_type(paragraphs)
  /\ pc' = "classified"
  /\ UNCHANGED <<http, doc, paragraphs, tables, formatted_html, html_text, transform_html_text,
                 idx, result, original_html, ran, spacing_calls, raised, fn>>

NextClassify == Classify

SpecClassify == InitClassify /\ [][NextClassify]_vars

---------------------------------------------------------------------------
(* The text -> text passes, one call each                                  *)

IntroBlock == <<DIV, "Intro", EDIV>>
NoticeBlock == <<DIV, "Notice is hereby given", EDIV>>

\* the pieces the input texts of a pass are made of
Blocks(f) ==
  CASE f = "simple_field_cleanup" ->
         { <<"{[tagHeader]}">>, <<"(Company Address Line 1)">>, <<"{[L001]}">>,
           <<"(System Date)">>, <<SP>>, <<DIV>>, <<EDIV>> }
    [] f = "fix_salutation_section" ->
         { IntroBlock, NoticeBlock,
           <<DIV, "Dear", SP, "(Mortgagor Name)", EDIV>>,
           <<DIVJ, "Dear", SP, "{[Salutation]},", EDIV, NL, BR, NL>>,
           <<DIVJ, "To cure", EDIV>>, <<DIV, "You are required", EDIV>> }
    [] f = "add_document_title_and_re_table" ->
         { IntroBlock, FiveBr, <<BR, BR, BR, NL>>, BorrowerStartLine }
    [] f = "transform_header_step" ->
         { IntroBlock, HeaderStartLine, TitleBlock, <<DIV, "{[L001]}", EDIV>> }
    [] f = "transform_borrower_step" ->
         { IntroBlock, BorrowerStartLine, SalutationBlock,
           <<DIV, "{[mailingAddress]}", EDIV>> }

PassFunctions ==
  {"simple_field_cleanup", "fix_salutation_section", "add_document_title_and_re_table",
   "transform_header_step", "transform_borrower_step"}

\* the most pieces an input text has
MaxBlocks == 4

\* the input texts of pass f: up to MaxBlocks of its pieces, one after the other
Inputs(f) ==
  {Flatten(s, 1, Len(s)) : s \in UNION {[1..m -> Blocks(f)] : m \in 0..MaxBlocks}}

InitPass ==
  /\ pc = "input"
  /\ fn \in PassFunctions
  /\ html_text \in Inputs(fn)
  /\ original_html = html_text
  /\ doc = NoValue
  /\ paragraphs = <<>>
  /\ tables = <<>>
  /\ document_type = NoValue
  /\ formatted_html = <<>>
  /\ transform_html_text = <<>>
  /\ idx = 0
  /\ result = NoValue
  /\ ran = <<>>
  /\ spacing_calls = 0
  /\ raised = NoValue
  /\ request = NoValue
  /\ DOCX_AVAILABLE = TRUE
  /\ response = <<>>

\* text = f(text)
Apply(name, out) ==
  /\ pc = "input"
  /\ fn = name
  /\ html_text' = out
  /\ ran' = Append(ran, name)
  /\ pc' = "output"
  /\ UNCHANGED <<http, doc, paragraphs, tables, document_type, formatted_html,
                 transform_html_text, idx, result, original_html, spacing_calls,
                 raised, fn>>

ApplySimpleFieldCleanup ==
  Apply("simple_field_cleanup", simple_field_cleanup(html_text))

ApplyFixSalutationSection ==
  Apply("fix_salutation_section", fix_salutation_section(html_text))

ApplyAddDocumentTitleAndReTable ==
  Apply("add_document_title_and_re_table", add_document_title_and_re_table(html_text))

ApplyTransformHeaderStep ==
  Apply("transform_header_step", transform_header_step(html_text))

ApplyTransformBorrowerStep ==
  Apply("transform_borrower_step", transform_borrower_step(html_text))

NextPass ==
  \/ ApplySimpleFieldCleanup
  \/ ApplyFixSalutationSection
  \/ ApplyAddDocumentTitleAndReTable
  \/ ApplyTransformHeaderStep
  \/ ApplyTransformBorrowerStep

SpecPass == InitPass /\ [][NextPass]_vars

---------------------------------------------------------------------------
(* Extraction and rendering on documents with formatted runs and tables    *)

\* the texts of the runs
RunTexts == {<<>>, <<SP>>, <<"Intro">>}

\* the character formats of the runs: flags as python-docx gives them, size in
\* half-points
RunFormats ==
  { [bold |-> "None", underline |-> "None", italic |-> "None", size |-> None],
    [bold |-> "True", underline |-> "None", italic |-> "False", size |-> 0],
    [bold |-> "True", underline |-> "True", italic |-> "True", size |-> 24],
    [bold |-> "False", underline |-> "True", italic |-> "None", size |-> 21],
    [bold |-> "None", underline |-> "False", italic |-> "True", size |-> 20] }

RunPool ==
  {[text |-> t, bold |-> f.bold, underline |-> f.underline, italic |-> f.italic,
    size |-> f.size] : t \in RunTexts, f \in RunFormats}

\* the most runs a paragraph has
MaxRuns == 2

\* documents of one paragraph with up to MaxRuns runs
OneParagraphDocuments ==
  {[parses |-> TRUE,
    paragraphs |-> <<[alignment |-> a, runs |-> rs]>>,
    tables |-> <<>>] :
     a \in {"None", "CENTER", "JUSTIFY", "DISTRIBUTE"},
     rs \in UNION {[1..m -> RunPool] : m \in 0..MaxRuns}}

\* a non-blank paragraph, a second one, a paragraph of one space, one without runs
RenderParagraphs ==
  { [alignment |-> "LEFT", runs |-> <<PlainRun(<<"Intro">>)>>],
    [alignment |-> "RIGHT", runs |-> <<BoldRun(<<TitleText>>), PlainRun(<<SP>>)>>],
    [alignment |-> "None", runs |-> <<PlainRun(<<SP>>)>>],
    [alignment |-> "None", runs |-> <<>>] }

\* the most paragraphs a document of several paragraphs has
MaxRenderParas == 3

ManyParagraphDocuments ==
  {[parses |-> TRUE, paragraphs |-> ps, tables |-> <<>>] :
     ps \in UNION {[1..m -> RenderParagraphs] : m \in 0..MaxRenderParas}}

\* cells: without paragraphs; with a paragraph without runs; with two runs; with
\* a first paragraph without runs and a second with a run; with two paragraphs
CellPool ==
  { [text |-> <<>>, paragraphs |-> <<>>],
    [text |-> <<>>, paragraphs |-> <<[runs |-> <<>>]>>],
    [text |-> <<"Mailing Address:">>,
     paragraphs |-> <<[runs |-> <<[bold |-> "True", underline |-> "None"],
                                  [bold |-> "False", underline |-> "True"]>>]>>],
    [text |-> <<NL, "Mortgage Loan No:">>,
     paragraphs |-> <<[runs |-> <<>>],
                      [runs |-> <<[bold |-> "True", underline |-> "True"]>>]>>],
    [text |-> <<"Property Address:", NL, "Mailing Address:">>,
     paragraphs |-> <<[runs |-> <<[bold |-> "None", underline |-> "True"]>>],
                      [runs |-> <<[bold |-> "True", underline |-> "False"]>>]>>] }

\* the most cells the row of a table has
MaxCells == 2

\* documents with one table of one row, with no paragraph or with one
TableDocuments ==
  {[parses |-> TRUE, paragraphs |-> ps, tables |-> << <<cells>> >>] :
     ps \in {<<>>, <<[alignment |-> "LEFT", runs |-> <<PlainRun(<<"Intro">>)>>]>>},
     cells \in UNION {[1..m -> CellPool] : m \in 0..MaxCells}}

RenderDocuments == OneParagraphDocuments \cup ManyParagraphDocuments \cup TableDocuments

InitRender ==
  /\ pc = "Document"
  /\ doc \in RenderDocuments
  /\ paragraphs = <<>>
  /\ tables = <<>>
  /\ document_type = NoValue
  /\ formatted_html = <<>>
  /\ html_text = <<>>
  /\ transform_html_text = <<>>
  /\ idx = 0
  /\ result = NoValue
  /\ original_html = <<>>
  /\ ran = <<>>
  /\ spacing_calls = 0
  /\ raised = NoValue
  /\ fn = "generate_formatted_html"
  /\ request = NoValue
  /\ DOCX_AVAILABLE = TRUE
  /\ response = <<>>

\* process_text_with_formatting(para['runs']) for paragraph i of the document
FormatRuns ==
  /\ pc = "detect_document_type"
  /\ \E i \in 1..Len(paragraphs) :
       /\ html_text' = process_text_with_formatting(paragraphs[i].runs)
       /\ idx' = i
  /\ pc' = "process_text_with_formatting"
  /\ UNCHANGED <<http, doc, paragraphs, tables, document_type, formatted_html,
                 transform_html_text, result, original_html, ran, spacing_calls,
                 raised, fn>>

NextRender ==
  \/ ExtractDocument
  \/ FormatRuns
  \/ DetectDocumentType
  \/ GenerateFormattedHtml

SpecRender == InitRender /\ [][NextRender]_vars

---------------------------------------------------------------------------
(* The HTTP handler                                                        *)

\* what the handler does with its response, in order: the calls of
\* send_response, send_header and end_headers, and the body written to wfile
\* (the object that json.dumps serializes)
SendResponse(code) == [call |-> "send_response", status |-> code]
SendHeader(keyword, val) == [call |-> "send_header", name |-> keyword, value |-> val]
EndHeaders == [call |-> "end_headers"]
Write(obj) == [call |-> "write", body |-> obj]

\* handler.send_error_response
send_error_response(status_code, message) ==
  << SendResponse(status_code),
     SendHeader("Content-type", "application/json"),
     SendHeader("Access-Control-Allow-Origin", "*"),
     EndHeaders,
     Write([error |-> message, success |-> FALSE]) >>

\* do_POST: the status line and the headers of the success response
SuccessHeaders ==
  << SendResponse(200),
     SendHeader("Content-type", "application/json"),
     SendHeader("Access-Control-Allow-Origin", "*"),
     SendHeader("Access-Control-Allow-Headers", "Content-Type"),
     SendHeader("Access-Control-Allow-Methods", "POST, OPTIONS"),
     EndHeaders >>

\* do_OPTIONS
PreflightResponse ==
  << SendResponse(200),
     SendHeader("Access-Control-Allow-Origin", "*"),
     SendHeader("Access-Control-Allow-Headers", "Content-Type"),
     SendHeader("Access-Control-Allow-Methods", "POST, OPTIONS"),
     EndHeaders >>

\* the except branch of process_word_document: its return value
ErrorResult ==
  [success |-> FALSE,
   error |-> <<"Error processing document: ", "err">>,
   formattedHtml |-> <<DIV, "Error processing document: ", "err", EDIV>>]

\* the except branch of do_POST: error_msg
ErrorMsg == <<"Error: ", "err", NL, "Traceback: ", "traceback">>

\* The documents that the file data of the requests hold: one that does not
\* parse, the tag header paragraph, the title with a table.
UnparseableDocument == [parses |-> FALSE, paragraphs |-> <<>>, tables |-> <<>>]

HandlerDocuments ==
  { UnparseableDocument,
    [parses |-> TRUE, paragraphs |-> Selection({2}), tables |-> <<>>],
    [parses |-> TRUE, paragraphs |-> Selection({3}), tables |-> <<SampleTable>>] }

\* The requests.  content_length: the Content-Length header is there and is a
\* number; body: what json.loads makes of the body ("object", "array" for JSON
\* that is not an object, "invalid" for what is not JSON); fileData: the value
\* of data.get('fileData'): None when the key is missing, "" when it is empty,
\* "base64" for data that decodes, "not base64" for data that does not;
\* document: what the decoded bytes are.
Requests ==
  {[method |-> "OPTIONS", content_length |-> FALSE, body |-> "invalid",
    fileData |-> NoValue, document |-> UnparseableDocument]}
    \cup {[method |-> "POST", content_length |-> c, body |-> b,
           fileData |-> f, document |-> UnparseableDocument] :
            c \in BOOLEAN, b \in {"object", "array", "invalid"},
            f \in {NoValue, "", "not base64"}}
    \cup {[method |-> "POST", content_length |-> TRUE, body |-> "object",
           fileData |-> "base64", document |-> d] : d \in HandlerDocuments}

InitHandler ==
  /\ request \in Requests
  /\ DOCX_AVAILABLE \in BOOLEAN
  /\ response = <<>>
  /\ pc = (IF request.method = "POST" THEN "do_POST" ELSE "do_OPTIONS")
  /\ doc = request.document
  /\ paragraphs = <<>>
  /\ tables = <<>>
  /\ document_type = NoValue
  /\ formatted_html = <<>>
  /\ html_text = <<>>
  /\ transform_html_text = <<>>
  /\ idx = 0
  /\ result = NoValue
  /\ original_html = <<>>
  /\ ran = <<>>
  /\ spacing_calls = 0
  /\ raised = NoValue
  /\ fn = "do_POST"

process == <<doc, paragraphs, tables, document_type, formatted_html, html_text,
             transform_html_text, idx, result, original_html, ran, spacing_calls,
             raised, fn>>

\* int(self.headers['Content-Length']), rfile.read, json.loads, data.get
ReadRequest ==
  /\ pc = "do_POST"
  /\ request.content_length
  /\ request.body = "object"
  /\ pc' = "file_data"
  /\ UNCHANGED <<http, process>>

\* one of them raises: no or no numeric Content-Length, a body that is not
\* JSON, JSON that has no get
ReadRequestRaises ==
  /\ pc = "do_POST"
  /\ ~(request.content_length /\ request.body = "object")
  /\ pc' = "except"
  /\ UNCHANGED <<http, process>>

\* if not file_data
NoFileData ==
  /\ pc = "file_data"
  /\ request.fileData \in {NoValue, ""}
  /\ response' = response \o send_error_response(400, <<"No file data provided">>)
  /\ pc' = "finished"
  /\ UNCHANGED <<request, DOCX_AVAILABLE, process>>

\* a check of DOCX_AVAILABLE that comes before the check of file_data
NoDocxFirst ==
  /\ pc = "file_data"
  /\ ~DOCX_AVAILABLE
  /\ response' = response \o send_error_response(500, <<"python-docx library not available">>)
  /\ pc' = "finished"
  /\ UNCHANGED <<request, DOCX_AVAILABLE, process>>

\* if not DOCX_AVAILABLE
NoDocx ==
  /\ pc = "file_data"
  /\ request.fileData \notin {NoValue, ""}
  /\ ~DOCX_AVAILABLE
  /\ response' = response \o send_error_response(500, <<"python-docx library not available">>)
  /\ pc' = "finished"
  /\ UNCHANGED <<request, DOCX_AVAILABLE, process>>

\* base64.b64decode(file_data) and the call of process_word_document
DecodeFileData ==
  /\ pc = "file_data"
  /\ request.fileData = "base64"
  /\ DOCX_AVAILABLE
  /\ fn' = "process_word_document"
  /\ pc' = "Document"
  /\ UNCHANGED <<http, doc, paragraphs, tables, document_type, formatted_html, html_text,
                 transform_html_text, idx, result, original_html, ran, spacing_calls,
                 raised>>

\* base64.b64decode raises
DecodeRaises ==
  /\ pc = "file_data"
  /\ request.fileData = "not base64"
  /\ DOCX_AVAILABLE
  /\ pc' = "except"
  /\ UNCHANGED <<http, process>>

\* an extraction, classification or rendering step of process_word_document
\* raises: its except branch
ProcessingRaises ==
  /\ \/ pc = "Document" /\ doc.parses
     \/ pc \in {"detect_document_type", "generate_formatted_html"}
  /\ result' = ErrorResult
  /\ pc' = "done"
  /\ UNCHANGED <<http, doc, paragraphs, tables, document_type, formatted_html, html_text,
                 transform_html_text, idx, original_html, ran, spacing_calls, raised, fn>>

\* send_response(200), the four send_header, end_headers
SendSuccessHeaders ==
  /\ pc = "done"
  /\ response' = response \o SuccessHeaders
  /\ fn' = "do_POST"
  /\ pc' = "write"
  /\ UNCHANGED <<request, DOCX_AVAILABLE, doc, paragraphs, tables, document_type,
                 formatted_html, html_text, transform_html_text, idx, result,
                 original_html, ran, spacing_calls, raised>>

\* json.dumps(result) and wfile.write
WriteResult ==
  /\ pc = "write"
  /\ response' = Append(response, Write(result))
  /\ pc' = "finished"
  /\ UNCHANGED <<request, DOCX_AVAILABLE, process>>

\* one of the two raises
WriteRaises ==
  /\ pc = "write"
  /\ pc' = "except"
  /\ UNCHANGED <<http, process>>

\* except Exception: send_error_response(500, error_msg)
HandlerExcept ==
  /\ pc = "except"
  /\ response' = response \o send_error_response(500, ErrorMsg)
  /\ pc' = "finished"
  /\ UNCHANGED <<request, DOCX_AVAILABLE, process>>

DoOptions ==
  /\ pc = "do_OPTIONS"
  /\ response' = response \o PreflightResponse
  /\ pc' = "finished"
  /\ UNCHANGED <<request, DOCX_AVAILABLE, process>>

NextHandler ==
  \/ ReadRequest
  \/ ReadRequestRaises
  \/ NoFileData
  \/ NoDocx
  \/ DecodeFileData
  \/ DecodeRaises
  \/ Next
  \/ ProcessingRaises
  \/ SendSuccessHeaders
  \/ WriteResult
  \/ WriteRaises
  \/ HandlerExcept
  \/ DoOptions

SpecHandler == InitHandler /\ [][NextHandler]_vars

---------------------------------------------------------------------------
(* The pipeline and the structure transformation on texts                  *)

\* a Dear line with an option, as the letters have it before the salutation pass
DearBlock == <<DIV, "Dear", SP, "(Mortgagor Name)", EDIV>>

\* a tag header line that the field cleanup leaves with a parenthetical
DoubleParentheticalBlock ==
  <<DIV, "{[tagHeader]}", "(Company Address Line 1)", "(Company Address Line 1)", EDIV>>

\* the first line of the payment information, as rendered
PaymentBlock == <<DIV, U, B, "Number of Payments Due:", EB, EU, EDIV>>

\* The lines of a letter the inputs of the pipeline are made of, in the order
\* of the letter.
LetterPieces ==
  << HeaderStartLine, FiveBr, TitleBlock, BorrowerStartLine, DearBlock, SalutationBlock,
     NoticeBlock, PaymentBlock, DoubleParentheticalBlock >>

\* the pieces of the inputs of the structure transformation: runs of <br>
BrPieces == { IntroBlock, <<BR>>, <<BR, BR, BR>>, <<BR, NL, BR>> }

PipelineFunctions == {"apply_universal_formatting_rules", "transform_to_target_format"}

\* the most pieces an input text of the pipeline has
MaxPieces == 2

\* the input texts: for the pipeline up to MaxPieces lines of the letter, in
\* their order; for the structure transformation up to MaxPieces of its pieces
PipelineInputs(f) ==
  IF f = "apply_universal_formatting_rules"
  THEN {Flatten([i \in 1..Len(InOrder(S)) |-> LetterPieces[InOrder(S)[i]]],
                1, Len(InOrder(S))) :
          S \in {T \in SUBSET (1..Len(LetterPieces)) : Cardinality(T) <= MaxPieces}}
  ELSE {Flatten(s, 1, Len(s)) : s \in UNION {[1..m -> BrPieces] : m \in 0..MaxPieces}}

InitPipeline ==
  /\ pc = "input"
  /\ fn \in PipelineFunctions
  /\ html_text \in PipelineInputs(fn)
  /\ original_html = html_text
  /\ doc = NoValue
  /\ paragraphs = <<>>
  /\ tables = <<>>
  /\ document_type = NoValue
  /\ formatted_html = <<>>
  /\ transform_html_text = <<>>
  /\ idx = 0
  /\ result = NoValue
  /\ ran = <<>>
  /\ spacing_calls = 0
  /\ raised = NoValue
  /\ request = NoValue
  /\ DOCX_AVAILABLE = TRUE
  /\ response = <<>>

\* a run of apply_universal_formatting_rules in which no pass raises
ApplyUniversalFormattingRules ==
  Apply("apply_universal_formatting_rules", apply_universal_formatting_rules(html_text))

ApplyTransformToTargetFormat ==
  Apply("transform_to_target_format", transform_to_target_format(html_text))

NextPipeline ==
  \/ ApplyUniversalFormattingRules
  \/ ApplyTransformToTargetFormat

SpecPipeline == InitPipeline /\ [][NextPipeline]_vars

---------------------------------------------------------------------------
(* Properties                                                              *)

\* pat occurs in text
Occurs(text, pat) ==
  \E k \in 0..(Len(text) - Len(pat)) : SubSeq(text, k + 1, k + Len(pat)) = pat

\* one of the tokens toks occurs in text
OccursToken(text, toks) == \E j \in 1..Len(text) : text[j] \in toks

\* the texts of the paragraphs, joined by single spaces
RECURSIVE JoinedBySpaces(_, _)
JoinedBySpaces(paras, n) ==
  IF n = 0 THEN <<>>
  ELSE IF n = 1 THEN paras[1].text
  ELSE JoinedBySpaces(paras, n - 1) \o <<SP>> \o paras[n].text

\* the H003 marker: '{Insert(H003', whitespace, 'TagHeader)}'
MarkerOccurs(text) ==
  \E k, e \in 1..Len(text) :
    /\ k + 1 < e
    /\ text[k] = "{Insert(H003"
    /\ text[e] = "TagHeader)}"
    /\ \A j \in (k + 1)..(e - 1) : text[j] \in Whitespace

ForecloseOccurs(text) ==
  OccursToken(text, {"Notice of Intention to Foreclose", TitleText})

PrivacyOccurs(text) ==
  Occurs(text, <<"Privacy", SP, "Policy">>) \/ OccursToken(text, {"FACTS"})

\* the rules in their order: the label, and whether the pattern occurs
Rules(text) ==
  << <<"H003", MarkerOccurs(text)>>,
     <<"BR010", ForecloseOccurs(text)>>,
     <<"BR017", OccursToken(text, {"Notice of Default and Right to Cure"})>>,
     <<"PRIVACY", PrivacyOccurs(text)>>,
     <<"SL106", Occurs(text, <<"maturity", SP, "date">>)
                  \/ Occurs(text, <<"payoff", SP, "statement">>)>> >>

FirstRuleLabel(text) ==
  LET matching == {i \in 1..Len(Rules(text)) : Rules(text)[i][2]}
  IN  IF matching = {} THEN "GENERIC"
      ELSE Rules(text)[CHOOSE i \in matching : \A j \in matching : i <= j][1]

\* C1: detect_document_type returns the label of the first rule, in the order
\* H003, BR010, BR017, PRIVACY, SL106, whose pattern occurs in the paragraph
\* texts joined by single spaces, and GENERIC when none occurs; a text with
\* 'Notice of Intention to Foreclose' and 'Privacy Policy' and no H003 marker
\* is BR010.
C1_FirstMatchingRule ==
  pc = "classified" =>
    LET text == JoinedBySpaces(paragraphs, Len(paragraphs))
    IN  /\ document_type = FirstRuleLabel(text)
        /\ (ForecloseOccurs(text) /\ Occurs(text, <<"Privacy", SP, "Policy">>)
              /\ ~MarkerOccurs(text)
            => document_type = "BR010")

\* a list with both phrases and no marker has been classified
C1_Witness ==
  /\ pc = "classified"
  /\ document_type = "BR010"
  /\ Len(paragraphs) = 2
  /\ paragraphs[1].text = <<"Privacy", SP, "Policy">>
  /\ paragraphs[2].text = <<"Notice of Intention to Foreclose">>

\* C2: if a pass raises, the returned string is the 'Formatting error' banner
\* followed by the HTML exactly as it was passed into the pipeline.
C2_ErrorReturnsOriginalHtml ==
  pc = "done" /\ raised # NoValue
    => result.formattedHtml = ErrorBanner \o original_html

\* C3: if a pass raises, no later pass is executed, the pipeline function
\* returns normally, and process_word_document returns success = true with a
\* formattedHtml string.
C3_ErrorStopsPipeline ==
  /\ [](raised # NoValue =>
          /\ pc \in {"return", "done"}
          /\ ran # <<>> /\ ran[Len(ran)] = raised
          /\ (pc = "return" => ENABLED ReturnResult)
          /\ (pc = "done" => /\ result.success = TRUE
                             /\ result.formattedHtml = html_text
                             /\ Prefix(html_text, Len(ErrorBanner)) = ErrorBanner))
  /\ [][raised # NoValue => ran' = ran /\ raised' = raised /\ pc' = "done"]_vars

\* a request is answered after its fourth pass raised
C3_Witness ==
  /\ pc = "done"
  /\ raised = "fix_remaining_patterns"
  /\ Len(ran) = 4
  /\ result.success = TRUE

\* C4: in a run without a failure each pass executes exactly once, in order, the
\* comprehensive spacing last; the line-noise cleanup and the spacing run only
\* after every entry of the table of transform_to_target_format is applied.
C4_EachPassOnce ==
  /\ spacing_calls > 0 => idx = NumTransformations /\ spacing_calls = 1
  /\ pc = "done" /\ raised = NoValue /\ result.success = TRUE
       => ran = Passes /\ spacing_calls = 1

\* the patterns a span-replace pass searches for are not both in the text
AnchorMissing(f, text) ==
  CASE f = "fix_salutation_section" ->
         \/ ~\E k \in 1..(Len(text) - 1) : IsDivOpen(text[k]) /\ text[k + 1] = "Dear"
         \/ ~\E k \in 1..(Len(text) - 1) :
               /\ IsDivOpen(text[k])
               /\ text[k + 1] \in {"Notice is hereby given", "To cure", "You are required"}
    [] f = "add_document_title_and_re_table" -> ~Occurs(text, FiveBr)
    [] f = "transform_header_step" ->
         ~Occurs(text, HeaderStartLine) \/ ~Occurs(text, TitleBlock)
    [] f = "transform_borrower_step" ->
         ~Occurs(text, BorrowerStartLine) \/ ~Occurs(text, SalutationBlock)
    [] OTHER -> FALSE

\* C5: a span-replace pass of the pipeline (salutation, title and RE table,
\* header step, borrower step) whose start pattern or whose end patterns do
\* not occur in the text returns the text unchanged.
C5_MissingAnchorNoOp ==
  pc = "output" /\ AnchorMissing(fn, original_html) => html_text = original_html

\* the salutation pass has run on a text with a Dear block and no end pattern
C5_Witness ==
  /\ pc = "output"
  /\ fn = "fix_salutation_section"
  /\ Occurs(original_html, <<DIV, "Dear">>)
  /\ AnchorMissing(fn, original_html)
  /\ html_text = original_html

\* the start and the end a span-replace step found, and the block it puts in
SpanStart(f, text) ==
  CASE f = "fix_salutation_section" -> SearchDivPhrase(text, "Dear")
    [] f = "transform_header_step" -> find(text, HeaderStartLine)
    [] f = "transform_borrower_step" -> find(text, BorrowerStartLine)

SpanEnd(f, text) ==
  CASE f = "fix_salutation_section" -> FirstPatternPos(text, salutation_end_patterns, 1)
    [] f = "transform_header_step" -> find(text, TitleBlock)
    [] f = "transform_borrower_step" -> find(text, SalutationBlock)

SpanBlock(f) ==
  CASE f = "fix_salutation_section" -> clean_salutation
    [] f = "transform_header_step" -> target_header
    [] f = "transform_borrower_step" -> target_re_table

\* C6: whenever a span-replace step (salutation, header step, borrower step)
\* changes the text, its start lies before its end, and the result is the
\* text before the start, the canonical block, the text from the end.
C6_StartBeforeEnd ==
  pc = "output"
    /\ fn \in {"fix_salutation_section", "transform_header_step", "transform_borrower_step"}
    /\ html_text # original_html
    => /\ SpanStart(fn, original_html) < SpanEnd(fn, original_html)
       /\ html_text = Prefix(original_html, SpanStart(fn, original_html))
                        \o SpanBlock(fn)
                        \o Suffix(original_html, SpanEnd(fn, original_html))

\* the offsets of the notice blocks after offset d
NoticesAfter(text, d) ==
  {k \in (d + 1)..(Len(text) - 2) :
     text[k + 1] = DIV /\ text[k + 2] = "Notice is hereby given"}

\* C7: when the first Dear block precedes a notice block, the salutation pass
\* yields the text before the first Dear block, one salutation block (with its
\* line break), then the notice paragraph and all after it, unchanged.
C7_SalutationCollapsed ==
  pc = "output" /\ fn = "fix_salutation_section"
    /\ SearchDivPhrase(original_html, "Dear") # None
    /\ NoticesAfter(original_html, SearchDivPhrase(original_html, "Dear")) # {}
    => LET d == SearchDivPhrase(original_html, "Dear")
           n == CHOOSE k \in NoticesAfter(original_html, d) :
                  \A m \in NoticesAfter(original_html, d) : k <= m
       IN  html_text = Prefix(original_html, d) \o clean_salutation
                         \o Suffix(original_html, n)

\* the descriptive parentheticals, and the placeholder + parenthetical pairs
\* that the table of the field cleanup lists
Parentheticals == {"(Company Address Line 1)", "(System Date)"}

KnownPairs ==
  { <<"{[tagHeader]}", "(Company Address Line 1)">>,
    <<"{[L001]}", SP, "(System Date)">> }

NoPairLeft(text) == \A pair \in KnownPairs : ~Occurs(text, pair)

\* no parenthetical is immediately followed by another one
NoDoubleParenthetical(text) ==
  \A j \in 1..(Len(text) - 1) :
    ~(text[j] \in Parentheticals /\ text[j + 1] \in Parentheticals)

\* the paragraph of the scenario, rendered
RenderedTagHeader ==
  generate_formatted_html(<<extract_paragraph_formatting(TagHeaderParagraph)>>,
                          <<>>, "GENERIC")

\* C8 (as stated): for every input text, after the field cleanup no known
\* placeholder is immediately followed by its parenthetical, and the rendered
\* tagHeader block becomes '<div>{[tagHeader]}</div>'.
C8_NoPairLeft_AnyInput ==
  pc = "output" /\ fn = "simple_field_cleanup"
    => /\ NoPairLeft(html_text)
       /\ (original_html = RenderedTagHeader
             => html_text = <<DIV, "{[tagHeader]}", EDIV>>)

\* C8 (amended): the same, for every input text in which no parenthetical is
\* immediately followed by another parenthetical.
C8_NoPairLeft ==
  pc = "output" /\ fn = "simple_field_cleanup" /\ NoDoubleParenthetical(original_html)
    => /\ NoPairLeft(html_text)
       /\ (original_html = RenderedTagHeader
             => html_text = <<DIV, "{[tagHeader]}", EDIV>>)

\* the cleanup has removed the parenthetical of the rendered tagHeader block
C8_Witness ==
  /\ pc = "output"
  /\ fn = "simple_field_cleanup"
  /\ original_html = RenderedTagHeader
  /\ original_html = <<DIV, "{[tagHeader]}", "(Company Address Line 1)", EDIV>>
  /\ html_text = <<DIV, "{[tagHeader]}", EDIV>>

\* C9: the title and RE table pass inserts the title and the table immediately
\* before the first 'Borrower Name:' block, and inserts nothing when there is
\* no such block.
C9_InsertBeforeBorrower ==
  pc = "output" /\ fn = "add_document_title_and_re_table"
    => LET b == find(original_html, <<DIV, B, "Borrower Name:", EB>>)
       IN  IF b = None THEN html_text = original_html
           ELSE html_text = Prefix(original_html, b) \o title_html \o re_table_html
                              \o Suffix(original_html, b)

\* C10: the HTML rendered from the paragraphs is the same for every document
\* type, and the formattedHtml of a run without a failure is the pipeline's
\* result on that HTML, all passes having run: equal paragraphs give equal
\* formattedHtml, whatever the document type.
C10_TypeIndependent ==
  /\ pc = "apply_universal_formatting_rules"
       => \A d \in DocumentTypes :
            generate_formatted_html(paragraphs, tables, d) = formatted_html
  /\ pc = "done" /\ raised = NoValue /\ result.success = TRUE
       => /\ ran = Passes
          /\ \A h \in {generate_formatted_html(result.paragraphs, result.tables, d) :
                         d \in DocumentTypes} :
               result.formattedHtml = apply_universal_formatting_rules(h)

\* a request for a document that is not GENERIC is answered, all passes run
C10_Witness ==
  /\ pc = "done"
  /\ raised = NoValue
  /\ result.success = TRUE
  /\ result.documentType = "BR010"
  /\ result.formattedHtml # original_html


---------------------------------------------------------------------------
(* Rendering of paragraphs                                                 *)

\* the paragraphs generate_formatted_html renders: those with non-blank text
RenderedParagraphs == SelectSeq(paragraphs, LAMBDA para : NotBlank(para.text))

\* the opening div tags of formatted_html, in order
OpeningDivs == SelectSeq(formatted_html, IsDivOpen)

\* the opening div tags with a text-align style ...
TextAlignDivs ==
  {"<div style=\"text-align: " \o a \o "\">" : a \in Alignments}
    \cup {"<div style=\"text-align: " \o a \o "; font-size: " \o f \o "\">" :
            a \in Alignments, f \in FontSizes}

\* ... and with a font-size style of size f
FontSizeDivs(f) ==
  {"<div style=\"font-size: " \o f \o "\">"}
    \cup {"<div style=\"text-align: " \o a \o "; font-size: " \o f \o "\">" :
            a \in Alignments}

Rendered == pc = "apply_universal_formatting_rules"

\* C11: every rendered paragraph has its opening div tag in the output of
\* generate_formatted_html, and that tag carries a text-align style exactly
\* when the paragraph's alignment is not 'left' (then it names that alignment).
C11_TextAlignIffNotLeft ==
  Rendered =>
    /\ Len(OpeningDivs) = Len(RenderedParagraphs)
    /\ \A i \in 1..Len(RenderedParagraphs) :
         /\ OpeningDivs[i] \in TextAlignDivs <=> RenderedParagraphs[i].alignment # "left"
         /\ \A a \in Alignments :
              RenderedParagraphs[i].alignment = a =>
                OpeningDivs[i] \in
                  {"<div style=\"text-align: " \o a \o "\">"}
                    \cup {"<div style=\"text-align: " \o a \o "; font-size: " \o f \o "\">" :
                            f \in FontSizes}

\* a document rendered with a left-aligned and a right-aligned paragraph
C11_Witness ==
  /\ Rendered
  /\ \E i, j \in 1..Len(RenderedParagraphs) :
       /\ RenderedParagraphs[i].alignment = "left"
       /\ RenderedParagraphs[j].alignment = "right"
       /\ OpeningDivs[i] = DIV
       /\ OpeningDivs[j] \in TextAlignDivs

\* the present font sizes of a paragraph's runs
PresentSizes(para) == {para.runs[i].fontSize : i \in 1..Len(para.runs)} \ {NoValue}

HasFontSizeStyle(tok) == \E f \in FontSizes : tok \in FontSizeDivs(f)

\* C12, as stated: the opening div tag of a rendered paragraph carries a
\* font-size style if and only if all font sizes present on its runs are equal.
\* A paragraph none of whose runs has a size meets the condition and gets no
\* style.
C12_FontSizeIffAllEqual ==
  Rendered =>
    \A i \in 1..Len(RenderedParagraphs) :
      i <= Len(OpeningDivs) =>
        (HasFontSizeStyle(OpeningDivs[i])
           <=> \A f, g \in PresentSizes(RenderedParagraphs[i]) : f = g)

\* C12, amended: the opening div tag of a rendered paragraph carries a font-size
\* style if and only if at least one run has a font size and all the sizes
\* present are equal; the style then names that size.
C12_FontSizeIffOnePresentSize ==
  Rendered =>
    \A i \in 1..Len(RenderedParagraphs) :
      /\ i <= Len(OpeningDivs)
      /\ \A f \in FontSizes :
           OpeningDivs[i] \in FontSizeDivs(f) <=> PresentSizes(RenderedParagraphs[i]) = {f}
      /\ HasFontSizeStyle(OpeningDivs[i])
           <=> Cardinality(PresentSizes(RenderedParagraphs[i])) = 1

\* a paragraph of two sized runs of one size, and the style it gets
C12_Witness ==
  /\ Rendered
  /\ Len(RenderedParagraphs) = 1
  /\ Len(RenderedParagraphs[1].runs) = 2
  /\ RenderedParagraphs[1].runs[1].fontSize # NoValue
  /\ RenderedParagraphs[1].runs[2].fontSize # NoValue
  /\ HasFontSizeStyle(formatted_html[1])

\* the offsets at which a block starts in formatted_html: 0 for the first block,
\* past the previous block and its separator for the others
RECURSIVE BlockStart(_)
BlockStart(i) ==
  IF i = 1 THEN 0
  ELSE BlockStart(i - 1) + Len(html_part(RenderedParagraphs[i - 1])) + 3

\* C13: formatted_html is one div block per paragraph with non-blank text, in
\* document order, consecutive blocks separated by exactly "\n<br>\n", nothing
\* before the first block or after the last, and empty when no paragraph has
\* non-blank text.
C13_OneBlockPerParagraph ==
  Rendered =>
    LET n == Len(RenderedParagraphs)
    IN  /\ n = 0 => formatted_html = <<>>
        /\ n > 0 =>
             Len(formatted_html) = BlockStart(n) + Len(html_part(RenderedParagraphs[n]))
        /\ \A i \in 1..n :
             LET para == RenderedParagraphs[i]
                 from == BlockStart(i)
                 to == from + Len(html_part(para))
             IN  /\ to <= Len(formatted_html)
                 /\ IsDivOpen(formatted_html[from + 1])
                 /\ SubSeq(formatted_html, from + 2, to - 1)
                      = process_text_with_formatting(para.runs)
                 /\ formatted_html[to] = EDIV
                 /\ i < n => /\ to + 3 < Len(formatted_html)
                             /\ SubSeq(formatted_html, to + 1, to + 3) = <<NL, BR, NL>>
        /\ Cardinality({k \in 1..Len(formatted_html) : formatted_html[k] = BR})
             = (IF n = 0 THEN 0 ELSE n - 1)
        /\ Cardinality({k \in 1..Len(formatted_html) : formatted_html[k] = EDIV}) = n

\* a document with a blank paragraph between two rendered ones
C13_Witness ==
  /\ Rendered
  /\ Len(paragraphs) = 3
  /\ ~NotBlank(paragraphs[2].text)
  /\ Len(RenderedParagraphs) = 2
  /\ Len(formatted_html) > 0


\* the opening tags around the text of a run, outermost first, and the closing
\* tags, innermost first
OpeningTags(run) ==
  (IF run.fontSize # NoValue
   THEN <<"<span style=\"font-size: " \o run.fontSize \o "\">">> ELSE <<>>)
    \o (IF Truthy(run.italic) THEN <<I>> ELSE <<>>)
    \o (IF Truthy(run.underline) THEN <<U>> ELSE <<>>)
    \o (IF Truthy(run.bold) THEN <<B>> ELSE <<>>)

ClosingTags(run) ==
  (IF Truthy(run.bold) THEN <<EB>> ELSE <<>>)
    \o (IF Truthy(run.underline) THEN <<EU>> ELSE <<>>)
    \o (IF Truthy(run.italic) THEN <<EI>> ELSE <<>>)
    \o (IF run.fontSize # NoValue THEN <<ESPAN>> ELSE <<>>)

SpanOpenTokens == {"<span style=\"font-size: " \o f \o "\">" : f \in FontSizes}

\* tok opens a tag that next closes
EmptyTagPair(tok, next) ==
  \/ tok = B /\ next = EB
  \/ tok = U /\ next = EU
  \/ tok = I /\ next = EI
  \/ tok \in SpanOpenTokens /\ next = ESPAN

Formatted == pc = "process_text_with_formatting"

\* C14: process_text_with_formatting returns the concatenation, in run order,
\* of the runs with non-empty text, each wrapped in <b> innermost, then <u>,
\* then <i>, then the font-size span outermost, as its flags and size say; a run
\* with empty text contributes nothing and no tag pair is empty.
C14_RunsWrappedInnermostFirst ==
  Formatted =>
    LET runs == paragraphs[idx].runs
        shown == SelectSeq(runs, LAMBDA run : Len(run.text) > 0)
        wrapped == [i \in 1..Len(shown) |->
                      OpeningTags(shown[i]) \o shown[i].text \o ClosingTags(shown[i])]
    IN  /\ html_text = Flatten(wrapped, 1, Len(wrapped))
        /\ \A k \in 1..(Len(html_text) - 1) : ~EmptyTagPair(html_text[k], html_text[k + 1])

\* a paragraph of a bold, underlined, italic, sized run without text and of one
\* with text
C14_Witness ==
  /\ Formatted
  /\ Len(paragraphs[idx].runs) = 2
  /\ \A i \in 1..2 : LET run == paragraphs[idx].runs[i]
                     IN  /\ Truthy(run.bold) /\ Truthy(run.underline) /\ Truthy(run.italic)
                         /\ run.fontSize # NoValue
  /\ paragraphs[idx].runs[1].text = <<>>
  /\ html_text = <<"<span style=\"font-size: 12pt\">", I, U, B, "Intro", EB, EU, EI, ESPAN>>


---------------------------------------------------------------------------
(* Tables                                                                  *)

\* the texts of the cells of extracted tables
CellTexts(tbls) ==
  UNION {UNION {{tbls[t].rows[r].cells[c].text : c \in 1..Len(tbls[t].rows[r].cells)} :
                  r \in 1..Len(tbls[t].rows)} :
           t \in 1..Len(tbls)}

\* values the extracted tables of a document can take: none, one table, two
\* tables, those at hand
TableValues ==
  {<<>>,
   <<extract_table_formatting(SampleTable)>>,
   <<extract_table_formatting(SampleTable), extract_table_formatting(SampleTable)>>,
   tables}

\* C15: the rendered HTML is the same whatever the extracted tables are, so the
\* formattedHtml of an answered request is the pipeline's result on the
\* rendering of the paragraphs alone, and no text of a cell of the extracted
\* tables is in it.
C15_TablesNotRendered ==
  /\ pc = "apply_universal_formatting_rules"
       => \A tbls \in TableValues :
            generate_formatted_html(paragraphs, tbls, document_type) = formatted_html
  /\ pc = "done" /\ raised = NoValue /\ result.success = TRUE
       => /\ \A tbls \in TableValues :
               result.formattedHtml
                 = apply_universal_formatting_rules(
                     generate_formatted_html(result.paragraphs, tbls, result.documentType))
          /\ \A text \in CellTexts(result.tables) :
               Len(text) > 0 => ~contains(result.formattedHtml, text)

\* a request for a document with a table that has text is answered
C15_Witness ==
  /\ pc = "done"
  /\ raised = NoValue
  /\ result.success = TRUE
  /\ \E text \in CellTexts(result.tables) : Len(text) > 0
  /\ Len(result.formattedHtml) > 0


---------------------------------------------------------------------------
(* Extraction of paragraphs                                                *)

Extracted == pc = "detect_document_type"

\* C16: of every extracted paragraph, one without runs or with runs of
\* whitespace only included, bold is true if and only if every run with
\* non-whitespace text is bold, and underline (italic) is true if and only if
\* at least one run is underlined (italic).
C16_ParagraphFlags ==
  Extracted =>
    \A i \in 1..Len(paragraphs) :
      LET runs == doc.paragraphs[i].runs
      IN  /\ paragraphs[i].bold
               <=> \A j \in 1..Len(runs) : NotBlank(runs[j].text) => Truthy(runs[j].bold)
          /\ paragraphs[i].underline <=> \E j \in 1..Len(runs) : Truthy(runs[j].underline)
          /\ paragraphs[i].italic <=> \E j \in 1..Len(runs) : Truthy(runs[j].italic)

\* a size of sz half-points, in points
SizeString(sz) ==
  IF sz % 2 = 0 THEN ToString(sz \div 2) \o "pt" ELSE ToString(sz \div 2) \o ".5pt"

\* C17: of every extracted run, fontSize is null exactly when the run's font
\* size is unset, and is otherwise the run's own size followed by 'pt'.
C17_RunFontSize ==
  Extracted =>
    \A i \in 1..Len(paragraphs) :
      \A j \in 1..Len(paragraphs[i].runs) :
        LET size == doc.paragraphs[i].runs[j].size
        IN  paragraphs[i].runs[j].fontSize
              = (IF size = None THEN NoValue ELSE SizeString(size))


\* C18: extraction gives every cell of every table its data, also a cell
\* without paragraphs or whose first paragraph has no runs: such a cell has
\* bold False, underline False and alignment 'left'; every other cell has the
\* bold and underline of the first run of its first paragraph, whatever its
\* other runs and paragraphs hold.
C18_CellFormatting ==
  Extracted =>
    /\ Len(tables) = Len(doc.tables)
    /\ \A t \in 1..Len(tables) :
         /\ Len(tables[t].rows) = Len(doc.tables[t])
         /\ \A r \in 1..Len(doc.tables[t]) :
              /\ Len(tables[t].rows[r].cells) = Len(doc.tables[t][r])
              /\ \A c \in 1..Len(doc.tables[t][r]) :
                   LET cell == doc.tables[t][r][c]
                       cell_data == tables[t].rows[r].cells[c]
                   IN  /\ cell_data.alignment = "left"
                       /\ cell_data.text = cell.text
                       /\ IF Len(cell.paragraphs) = 0
                          THEN cell_data.bold = "False" /\ cell_data.underline = "False"
                          ELSE IF Len(cell.paragraphs[1].runs) = 0
                          THEN cell_data.bold = "False" /\ cell_data.underline = "False"
                          ELSE /\ cell_data.bold = cell.paragraphs[1].runs[1].bold
                               /\ cell_data.underline = cell.paragraphs[1].runs[1].underline

\* a row of a cell without paragraphs and of a cell of two runs that differ
C18_Witness ==
  /\ Extracted
  /\ Len(tables) = 1
  /\ Len(doc.tables[1][1]) = 2
  /\ Len(doc.tables[1][1][1].paragraphs) = 0
  /\ Len(doc.tables[1][1][2].paragraphs) = 1
  /\ Len(doc.tables[1][1][2].paragraphs[1].runs) = 2
  /\ tables[1].rows[1].cells[1].bold = "False"
  /\ tables[1].rows[1].cells[2].bold = "True"
  /\ tables[1].rows[1].cells[2].underline = "None"


---------------------------------------------------------------------------
(* The handler's answers                                                   *)

\* the status lines of the response, in order
StatusLines == SelectSeq(response, LAMBDA entry : entry.call = "send_response")

\* the bodies written, in order
Bodies == SelectSeq(response, LAMBDA entry : entry.call = "write")

\* a POST whose body is a JSON object without fileData or with an empty one
NoFileDataRequest ==
  /\ request.method = "POST"
  /\ request.content_length
  /\ request.body = "object"
  /\ request.fileData \in {NoValue, ""}

\* C19: a POST whose JSON body has no fileData, missing or empty, is answered
\* with the status 400 and the body {error: 'No file data provided', success:
\* false}, and nothing is decoded or processed, whether python-docx is
\* available or not.
C19_NoFileDataIs400 ==
  NoFileDataRequest =>
    /\ pc \in {"do_POST", "file_data", "finished"}
    /\ fn = "do_POST"
    /\ Len(paragraphs) = 0 /\ Len(ran) = 0 /\ Len(formatted_html) = 0
    /\ pc = "finished" =>
         /\ StatusLines = <<SendResponse(400)>>
         /\ response[1] = SendResponse(400)
         /\ Bodies = <<Write([error |-> <<"No file data provided">>, success |-> FALSE])>>
         /\ response[Len(response)].call = "write"
         /\ \E k \in 1..Len(response) : response[k] = EndHeaders
    /\ pc # "finished" => response = <<>>

\* a request with an empty fileData is answered while python-docx is missing
C19_Witness ==
  /\ pc = "finished"
  /\ request.method = "POST"
  /\ request.fileData = ""
  /\ ~DOCX_AVAILABLE
  /\ response[1] = SendResponse(400)

\* the request has been answered with the headers of the success response
AnsweredPost ==
  /\ request.method = "POST"
  /\ Len(response) > 0
  /\ response[1] = SendResponse(200)

\* a POST with file data that decodes to a document that does not parse
UnparseableRequest ==
  /\ request.method = "POST"
  /\ request.content_length
  /\ request.body = "object"
  /\ request.fileData = "base64"
  /\ DOCX_AVAILABLE
  /\ ~request.document.parses

\* C20: process_word_document does not raise; when the document does not parse
\* or a step of the extraction, classification or rendering raises, it returns
\* success false, an error that starts with 'Error processing document' and a
\* formattedHtml that is a div with the same message, and the handler answers
\* with the status 200 and writes that result.
C20_FailureIsAnswered200 ==
  /\ fn = "process_word_document" => pc # "except"
  /\ UnparseableRequest =>
       /\ pc \in {"do_POST", "file_data", "Document", "done", "write", "finished", "except"}
       /\ pc \in {"done", "write"} => result.success = FALSE
       /\ pc \in {"finished", "except"} => AnsweredPost /\ result.success = FALSE
  /\ (pc \in {"done", "write"} \/ (pc \in {"finished", "except"} /\ AnsweredPost)) =>
       (result.success = FALSE =>
          /\ Len(result.error) > 1
          /\ result.error[1] = "Error processing document: "
          /\ result.formattedHtml = <<DIV>> \o result.error \o <<EDIV>>
          /\ pc # "done" => /\ AnsweredPost
                            /\ SelectSeq(response, LAMBDA entry : entry.call = "end_headers")[1]
                                 = EndHeaders
          /\ pc = "finished" =>
               \/ response = SuccessHeaders \o <<Write(result)>>
               \/ /\ SubSeq(response, 1, Len(SuccessHeaders)) = SuccessHeaders
                  /\ Bodies = <<Write([error |-> ErrorMsg, success |-> FALSE])>>)

\* a document that does not parse has been answered
C20_Witness ==
  /\ pc = "finished"
  /\ UnparseableRequest
  /\ StatusLines = <<SendResponse(200)>>
  /\ Bodies = <<Write(result)>>
  /\ result.success = FALSE


\* the headers sent between the status line at position k and its end_headers
HeadersOf(k) ==
  LET ends == {j \in (k + 1)..Len(response) : response[j].call \in {"end_headers", "send_response"}}
      stop == IF ends = {} THEN Len(response) + 1
              ELSE CHOOSE j \in ends : \A i \in ends : j <= i
  IN  {response[j] : j \in (k + 1)..(stop - 1)}

CorsHeaders ==
  { SendHeader("Access-Control-Allow-Origin", "*"),
    SendHeader("Access-Control-Allow-Headers", "Content-Type"),
    SendHeader("Access-Control-Allow-Methods", "POST, OPTIONS") }

\* C21: every response the handler sends, the 200 of a processed request, the
\* 400, the 500 and the answer to OPTIONS, carries the three CORS headers
\* Access-Control-Allow-Origin '*', Access-Control-Allow-Headers 'Content-Type'
\* and Access-Control-Allow-Methods 'POST, OPTIONS'.
C21_CorsOnEveryResponse ==
  pc = "finished" =>
    \A k \in 1..Len(response) :
      response[k].call = "send_response" => CorsHeaders \subseteq HeadersOf(k)


\* the end_headers calls of the response, in order
HeaderBlocks == SelectSeq(response, LAMBDA entry : entry.call = "end_headers")

\* C22: whatever step of a POST fails, the handler sends exactly one response:
\* never more than one status line, and when it is through one status line,
\* one header block and one body; no status line follows the headers of the
\* 200 response.
C22_ExactlyOneResponse ==
  request.method = "POST" =>
    /\ Len(StatusLines) <= 1
    /\ pc = "finished" =>
         /\ Len(StatusLines) = 1
         /\ Len(HeaderBlocks) = 1
         /\ Len(Bodies) = 1
    /\ \A k \in 1..Len(response) :
         response[k] = SendResponse(200) =>
           \A j \in (k + 1)..Len(response) : response[j].call # "send_response"

\* ---- the structure transformation and the pipeline as a whole ----

\* the text a function of the pipeline has returned
Returned(f) == pc = "output" /\ fn = f

\* the number of <br> in the run of <br> and whitespace that starts at token i
RECURSIVE BrRunFrom(_, _)
BrRunFrom(text, i) ==
  IF i > Len(text) THEN 0
  ELSE IF text[i] = BR THEN 1 + BrRunFrom(text, i + 1)
  ELSE IF text[i] \in Whitespace THEN BrRunFrom(text, i + 1)
  ELSE 0

\* the length of the longest run of <br> separated only by whitespace
LongestBrRun(text) ==
  LET runs == {BrRunFrom(text, i) : i \in 1..Len(text)} \cup {0}
  IN  CHOOSE n \in runs : \A m \in runs : m <= n

\* C23: after transform_to_target_format has run, the text holds no run of
\* more than 5 consecutive <br> (separated only by whitespace), and a text that
\* came in with a run of 6 or more leaves with that run collapsed to exactly 5.
C23_BrRunsCollapsedToFive ==
  Returned("transform_to_target_format") =>
    /\ LongestBrRun(html_text) <= 5
    /\ LongestBrRun(original_html) >= 6 => LongestBrRun(html_text) = 5

\* the RE tables of a text: the tokens from the <div> before each <table ...>
\* through the </table>
ReTables(text) ==
  { SubSeq(text, i - 1, i - 2 + Len(ReTableOpen(BorrowerValueRaw))) :
      i \in {j \in 2..Len(text) : text[j] = TABLE} }

\* the passes of the pipeline that insert an RE table
ReTablePasses == {"add_document_title_and_re_table", "transform_borrower_step"}

\* C24: every RE table a pass of the pipeline inserts is the same literal: the
\* rows Borrower Name, Mailing Address, Mortgage Loan No, Property Address, the
\* Borrower Name value being {[M558]}{If('{[M559]}'<>'')} and {[M559]}{End If},
\* whichever of the two passes inserted it.
C24_ReTableIsCanonical ==
  (pc = "output" /\ fn \in ReTablePasses) =>
    ReTables(html_text) \subseteq {ReTableOpen(BorrowerValueRaw)}

\* fix_payment_information: the label cells of payment_table and their labels
TD50 == "<td width=\"50%\">"
PaymentRowLabels ==
  << "Number of Payments Due:", "Net Payment Amount:", "Unpaid Late Charges:",
     "NSF & Other Fees:", "Unapplied/Suspense Funds:" >>

\* the labels of the payment table rows of a text, in their order
PaymentRows(text) ==
  LET cells == {i \in 1..(Len(text) - 1) : text[i] = TD50}
  IN  [k \in 1..Cardinality(cells) |-> text[InOrder(cells)[k] + 1]]

RECURSIVE SkipBlanks(_, _)
SkipBlanks(text, k) ==
  IF k < Len(text) /\ text[k + 1] \in {SP, TAB} THEN SkipBlanks(text, k + 1) ELSE k

\* the tokens i of a text that end a block (a </div> or a <br>) and have the
\* next <div ...> or <br> on the same line
SharedLines(text) ==
  { i \in 1..Len(text) :
      /\ text[i] \in {EDIV, BR}
      /\ SkipBlanks(text, i) < Len(text)
      /\ text[SkipBlanks(text, i) + 1] \in DivOpenTokens \cup {BR} }

\* C26: in the final output of the pipeline every line holds at most one block
\* element: each <br> and each </div> is separated from the next <div ...> or
\* <br> by a newline.
C26_OneBlockPerLine ==
  Returned("apply_universal_formatting_rules") => SharedLines(html_text) = {}

\* the two field-cleanup banners
GreenBanner == <<DIVGREEN, "Simple field cleanup worked!", EDIV>>
RedBanner == <<DIVRED, "Simple field cleanup did NOT work", EDIV>>

\* the banner that belongs in front of the pipeline's output for this input
ExpectedBanner(input) ==
  IF OccursToken(simple_field_cleanup(input), {"(Company Address Line 1)"})
  THEN RedBanner ELSE GreenBanner

\* the field-cleanup banners of a text: the offsets where one starts
Banners(text) ==
  {k \in Offsets(text) : MatchAt(text, GreenBanner, k) \/ MatchAt(text, RedBanner, k)}

\* C27: the output of a pipeline run that did not fail begins with the
\* field-cleanup banner, the green one iff '(Company Address Line 1)' is absent
\* from the output of simple_field_cleanup and the red one otherwise, and it
\* is the only banner of the output.
C27_OneBannerInFront ==
  Returned("apply_universal_formatting_rules") =>
    /\ Len(html_text) >= 3
    /\ Prefix(html_text, 3) = ExpectedBanner(original_html)
    /\ Banners(html_text) = {0}

\* a run that ends with the red banner in front of a changed text
C27_Witness ==
  /\ Returned("apply_universal_formatting_rules")
  /\ Prefix(html_text, 3) = RedBanner
  /\ OccursToken(html_text, {TABLE})

\* the offsets at which a div that begins with phrase starts
DivPhraseOffsets(text, phrase) ==
  {k \in 0..(Len(text) - 2) : text[k + 1] \in DivOpenTokens /\ text[k + 2] = phrase}

\* the end patterns of the salutation pass that occur in the text, by their
\* place in the list
PatternsPresent(text) ==
  {n \in 1..Len(salutation_end_patterns) :
     DivPhraseOffsets(text, salutation_end_patterns[n]) # {}}

Least(S) == CHOOSE x \in S : \A y \in S : x <= y

\* the end anchor: the first match of the first listed pattern that occurs
EndAnchor(text) ==
  Least(DivPhraseOffsets(text, salutation_end_patterns[Least(PatternsPresent(text))]))

\* C28: the salutation pass cuts at the first match of the first pattern, in
\* the order 'Notice is hereby given', 'To cure', 'You are required', that
\* occurs anywhere in the text; a later-listed pattern is used only when no
\* earlier-listed one occurs, also when its match lies earlier in the text.
C28_FirstListedPatternWins ==
  ( /\ pc = "output" /\ fn = "fix_salutation_section"
    /\ DivPhraseOffsets(original_html, "Dear") # {}
    /\ PatternsPresent(original_html) # {}
    /\ EndAnchor(original_html) # 0 ) =>
    html_text = Prefix(original_html, Least(DivPhraseOffsets(original_html, "Dear")))
                  \o clean_salutation
                  \o Suffix(original_html, EndAnchor(original_html))

\* the pass has cut at 'Notice is hereby given' although a 'To cure' div lies
\* before it
C28_Witness ==
  /\ pc = "output" /\ fn = "fix_salutation_section"
  /\ DivPhraseOffsets(original_html, "Dear") # {}
  /\ PatternsPresent(original_html) = {1, 2}
  /\ Least(DivPhraseOffsets(original_html, "To cure")) < EndAnchor(original_html)
  /\ Least(DivPhraseOffsets(original_html, "Dear"))
       < Least(DivPhraseOffsets(original_html, "To cure"))
  /\ html_text # original_html

\* the title blocks and the RE tables of a text: the offsets where they start
TitleBlocks(text) == {k \in Offsets(text) : MatchAt(text, TitleBlock, k)}
ReTableStarts(text) == {k \in Offsets(text) : MatchAt(text, <<TD20, B, "Borrower Name:", EB, ETD>>, k)}

\* C29: the final output of the pipeline holds at most one 'Notice of
\* Intention to Foreclose Mortgage' title block and at most one RE table: the
\* title pass and the borrower step of the structure transformation never
\* both insert, and a text that holds the title gets no second one.
C29_AtMostOneTitleAndTable ==
  Returned("apply_universal_formatting_rules") =>
    /\ Cardinality(TitleBlocks(html_text)) <= 1
    /\ Cardinality(ReTableStarts(html_text)) <= 1

\* the number of tokens of a text that are in the set toks
RECURSIVE CountTokens(_, _, _, _)
CountTokens(text, toks, lo, hi) ==
  IF lo > hi THEN 0
  ELSE IF lo = hi THEN (IF text[lo] \in toks THEN 1 ELSE 0)
  ELSE LET mid == (lo + hi) \div 2
       IN  CountTokens(text, toks, lo, mid) + CountTokens(text, toks, mid + 1, hi)

\* a text has as many </div> as <div ...>
DivBalanced(text) ==
  CountTokens(text, DivOpenTokens, 1, Len(text)) = CountTokens(text, {EDIV}, 1, Len(text))

\* C30: the pipeline preserves div balance: for an input in which each <div>
\* has its </div>, the final output has as many </div> as <div>.
C30_DivBalancePreserved ==
  (Returned("apply_universal_formatting_rules") /\ DivBalanced(original_html)) =>
    DivBalanced(html_text)

=============================================================================
